---------------------------- MODULE Spec2Model ----------------------------
(***************************************************************************)
(* A model of the Trade Republic PDF statement reader                      *)
(* (src/src/readers/traderepublic-pdf.ts): the line sanitizer, the chapter *)
(* segmenter, the date anchor scanner, the transaction table processor,    *)
(* the segment parser, the flow direction classifier and the balance       *)
(* validator.                                                              *)
(*                                                                         *)
(* Strings.  A string is modelled as the non-empty sequence of the pieces  *)
(* it falls into when cut at every single space: "a b" is <<"a","b">>,     *)
(* "a  b" is <<"a","","b">>, " a" is <<"","a">> and "" is <<"">>.  The     *)
(* pieces (tokens) are opaque TLA+ strings; a regular expression is the    *)
(* set of the tokens of the model's universe that it matches, parseInt and *)
(* parseAmountEU are tables over these tokens.                             *)
(*                                                                         *)
(* Money.  Amounts are held in integer cents.  The one place where the     *)
(* binary floating point of the source shows is the comparison of          *)
(* validateBalance (see FloatExceedsEpsilon).                              *)
(*                                                                         *)
(* Indices.  Sequences are 1-based: index k of the model is index k-1 of   *)
(* the source.                                                             *)
(***************************************************************************)
EXTENDS Integers, Sequences, FiniteSets, TLC

VARIABLES
    pc,               \* position of the running call
    lines,            \* processTransactions / tryParseDate: the argument
    i,                \* processTransactions: the scan index (1-based)
    dateInfo,         \* the result of the last tryParseDate(lines, i)
    transactions,     \* processTransactions: the result list
    previousBalance,  \* processTransactions: the carried balance
    log,              \* the logger: every diagnostic emitted so far
    hist,             \* history: what each record or result was made from
    pages,            \* removeHeaders / processChapters: the argument
    cleaned,          \* removeHeaders: the value returned by the last call
    calls,            \* removeHeaders: number of calls made so far
    allLines,         \* processChapters: the flattened line stream
    cur,              \* processChapters: index of the next line (1-based)
    currentChapter,   \* processChapters: name of the open chapter
    currentContent,   \* processChapters: lines accumulated for it
    headerSeenInChapter, \* processChapters: the header-seen flag
    emitted           \* processChapters: the callback's invocations so far

vars == <<pc, lines, i, dateInfo, transactions, previousBalance, log, hist,
          pages, cleaned, calls, allLines, cur, currentChapter,
          currentContent, headerSeenInChapter, emitted>>

ptVars == <<lines, i, dateInfo, transactions, previousBalance, log, hist>>
rhVars == <<pages, cleaned, calls>>
pcVars == <<allLines, cur, currentChapter, currentContent,
            headerSeenInChapter, emitted>>

-----------------------------------------------------------------------------
(* Optional values: null / undefined is the empty tuple.                   *)

Null == <<>>
Some(v) == <<v>>
OrZero(o) == IF o = Null THEN 0 ELSE o[1]

Abs(n) == IF n < 0 THEN -n ELSE n

-----------------------------------------------------------------------------
(* Strings as sequences of space-separated pieces.                         *)

EmptyString == <<"">>

RECURSIVE DropLeadingEmpty(_)
DropLeadingEmpty(s) ==
    IF s = <<>> THEN <<>>
    ELSE IF Head(s) = "" THEN DropLeadingEmpty(Tail(s)) ELSE s

RECURSIVE DropTrailingEmpty(_)
DropTrailingEmpty(s) ==
    IF s = <<>> THEN <<>>
    ELSE IF s[Len(s)] = "" THEN DropTrailingEmpty(SubSeq(s, 1, Len(s) - 1))
    ELSE s

\* String.prototype.trim
Trim(s) ==
    LET t == DropTrailingEmpty(DropLeadingEmpty(s))
    IN  IF t = <<>> THEN EmptyString ELSE t

\* s.split(/\s+/): runs of whitespace separate the parts; a string that
\* starts (ends) with whitespace has a first (last) part ''.
SplitWS(s) ==
    LET n == Len(s)
        keep(k) == s[k] # "" \/ k = 1 \/ k = n
        RECURSIVE pick(_)
        pick(k) == IF k > n THEN <<>>
                   ELSE IF keep(k) THEN <<s[k]>> \o pick(k + 1)
                   ELSE pick(k + 1)
    IN  pick(1)

\* parts.join(' ') of an array of strings
RECURSIVE JoinSpace(_)
JoinSpace(parts) ==
    IF parts = <<>> THEN EmptyString
    ELSE IF Len(parts) = 1 THEN parts[1]
    ELSE parts[1] \o JoinSpace(Tail(parts))

-----------------------------------------------------------------------------
(* The token universe and the patterns over it.                            *)

\* /^\d{1,2}$/ : the tokens of the universe that are one or two digits
DayShaped == {"1", "2", "3", "7", "21", "31"}

\* /^\d{4}$/ : the tokens of the universe that are exactly four digits
YearShaped == {"2021", "2022"}

\* parseInt(token, 10) for the digit tokens of the universe
ParseInt ==
    ("1" :> 1) @@ ("2" :> 2) @@ ("3" :> 3) @@ ("7" :> 7) @@ ("21" :> 21) @@
    ("31" :> 31) @@ ("2021" :> 2021) @@ ("2022" :> 2022)

GERMAN_MONTHS ==
    ("Jan" :> 0) @@ ("Jan." :> 0) @@ ("Feb" :> 1) @@ ("Feb." :> 1) @@
    ("März" :> 2) @@ ("Mär." :> 2) @@ ("Apr" :> 3) @@ ("Apr." :> 3) @@
    ("Mai" :> 4) @@ ("Mai." :> 4) @@ ("Juni" :> 5) @@ ("Jun." :> 5) @@
    ("Juli" :> 6) @@ ("Jul." :> 6) @@ ("Aug" :> 7) @@ ("Aug." :> 7) @@
    ("Sep" :> 8) @@ ("Sept." :> 8) @@ ("Okt" :> 9) @@ ("Okt." :> 9) @@
    ("Nov" :> 10) @@ ("Nov." :> 10) @@ ("Dez" :> 11) @@ ("Dez." :> 11)

\* Appending "." to a token: one capital letter and two or three small
\* letters, so that both the token and the token with "." match
\* /^\p{Lu}\p{Ll}{2,3}\.?$/u.
WithPeriod ==
    ("Jan" :> "Jan.") @@ ("Feb" :> "Feb.") @@ ("März" :> "März.") @@
    ("Mär" :> "Mär.") @@ ("Apr" :> "Apr.") @@ ("Mai" :> "Mai.") @@
    ("Juni" :> "Juni.") @@ ("Jun" :> "Jun.") @@ ("Juli" :> "Juli.") @@
    ("Jul" :> "Jul.") @@ ("Aug" :> "Aug.") @@ ("Sep" :> "Sep.") @@
    ("Sept" :> "Sept.") @@ ("Okt" :> "Okt.") @@ ("Nov" :> "Nov.") @@
    ("Dez" :> "Dez.") @@ ("Foo" :> "Foo.") @@ ("Kauf" :> "Kauf.")

\* /^\p{Lu}\p{Ll}{2,3}\.?$/u : the tokens of the universe the pattern matches
MonthShaped == DOMAIN WithPeriod \cup {WithPeriod[m] : m \in DOMAIN WithPeriod}

DAY_PATTERN(t) == t \in DayShaped
MONTH_PATTERN(t) == t \in MonthShaped
YEAR_PATTERN(t) == t \in YearShaped

-----------------------------------------------------------------------------
(* new Date(year, month, day): the local calendar date, with the           *)
(* constructor's normalisation of a day outside the month and of a year    *)
(* below 100.                                                              *)

IsLeap(y) == (y % 4 = 0 /\ y % 100 # 0) \/ y % 400 = 0

DaysInMonth(y, m) ==
    IF m = 1 THEN (IF IsLeap(y) THEN 29 ELSE 28)
    ELSE IF m \in {3, 5, 8, 10} THEN 30 ELSE 31

RECURSIVE NormalizeDate(_, _, _)
NormalizeDate(y, m, d) ==
    IF d = 0
    THEN IF m = 0 THEN [year |-> y - 1, month |-> 11, day |-> 31]
         ELSE [year |-> y, month |-> m - 1, day |-> DaysInMonth(y, m - 1)]
    ELSE IF d > DaysInMonth(y, m)
    THEN NormalizeDate(IF m = 11 THEN y + 1 ELSE y, (m + 1) % 12,
                       d - DaysInMonth(y, m))
    ELSE [year |-> y, month |-> m, day |-> d]

JSDate(year, month, day) ==
    NormalizeDate(IF year < 100 THEN 1900 + year ELSE year, month, day)

\* a toJSDate that takes January for a month that is not in the table
toJSDate_GuessMonth(yearStr, monthStr, dayStr) ==
    [threw |-> FALSE,
     date |-> JSDate(ParseInt[yearStr],
                     IF monthStr \in DOMAIN GERMAN_MONTHS
                     THEN GERMAN_MONTHS[monthStr] ELSE 0,
                     ParseInt[dayStr])]

\* toJSDate: a date, or the Error thrown for a month that is not in the table
toJSDate(yearStr, monthStr, dayStr) ==
    LET day == ParseInt[dayStr]
        year == ParseInt[yearStr]
    IN  IF monthStr \notin DOMAIN GERMAN_MONTHS
        THEN [threw |-> TRUE, month |-> monthStr]
        ELSE [threw |-> FALSE,
              date |-> JSDate(year, GERMAN_MONTHS[monthStr], day)]

-----------------------------------------------------------------------------
(* tryParseDate: "null", a date anchor, or the Error of toJSDate.          *)

NoDate == [kind |-> "null"]

\* a date whose nextIndex is the line before the one the code names
DateResult_OneLineBack(d, nextIndex, restOfLine) ==
    IF d.threw THEN [kind |-> "throw", month |-> d.month]
    ELSE [kind |-> "date", date |-> d.date, nextIndex |-> nextIndex - 1,
          restOfLine |-> restOfLine]

DateResult(d, nextIndex, restOfLine) ==
    IF d.threw THEN [kind |-> "throw", month |-> d.month]
    ELSE [kind |-> "date", date |-> d.date, nextIndex |-> nextIndex,
          restOfLine |-> restOfLine]

\* Case 1: "day month" on line index, the year first on the next line
IsTwoLineDate(ls, index) ==
    LET currentParts == SplitWS(Trim(ls[index]))
    IN  /\ Len(currentParts) = 2
        /\ MONTH_PATTERN(currentParts[2])
        /\ index + 1 <= Len(ls)
        /\ YEAR_PATTERN(SplitWS(Trim(ls[index + 1]))[1])

\* a three-line date whose year line is not looked at
IsThreeLineDate_NoYearCheck(ls, index) ==
    /\ Len(SplitWS(Trim(ls[index]))) = 1
    /\ index + 2 <= Len(ls)
    /\ Len(Trim(ls[index + 1])) = 1
    /\ MONTH_PATTERN(Trim(ls[index + 1])[1])

\* Case 2: the day, the month and the year each alone on a line
IsThreeLineDate(ls, index) ==
    /\ Len(SplitWS(Trim(ls[index]))) = 1
    /\ index + 2 <= Len(ls)
    /\ Len(Trim(ls[index + 1])) = 1
    /\ MONTH_PATTERN(Trim(ls[index + 1])[1])
    /\ Len(Trim(ls[index + 2])) = 1
    /\ YEAR_PATTERN(Trim(ls[index + 2])[1])

tryParseDate(ls, index) ==
    IF index > Len(ls) THEN NoDate
    ELSE
    LET currentParts == SplitWS(Trim(ls[index]))
        day == currentParts[1]
    IN  IF ~DAY_PATTERN(day) THEN NoDate
        ELSE IF IsTwoLineDate(ls, index)
        THEN LET nextParts == SplitWS(Trim(ls[index + 1]))
                 rest == Tail(nextParts)
             IN  DateResult(toJSDate(nextParts[1], currentParts[2], day),
                            index + 1,
                            IF rest = <<>> THEN Null ELSE Some(rest))
        ELSE IF IsThreeLineDate(ls, index)
        THEN DateResult(toJSDate(Trim(ls[index + 2])[1],
                                 Trim(ls[index + 1])[1], day),
                        index + 3, Null)
        ELSE NoDate

-----------------------------------------------------------------------------
(* Monetary substrings, categories and the segment parser.                 *)

\* parseAmountEU of the substrings of the universe that MONEY_PATTERN
\* matches, in cents
MoneyCents ==
    ("0,00 €" :> 0) @@ ("10,00 €" :> 1000) @@ ("50,00 €" :> 5000) @@
    ("100,00 €" :> 10000) @@ ("150,00 €" :> 15000) @@
    ("150,01 €" :> 15001) @@ ("236,00 €" :> 23600) @@
    ("264,00 €" :> 26400) @@ ("500,00 €" :> 50000) @@ ("-5,00 €" :> -500)

\* /(-?\d+(?:\.\d{3})*(?:,\d{2})?\s*€)/g
MONEY_PATTERN(t) == t \in DOMAIN MoneyCents

parseAmountEU(str) == MoneyCents[str]

BALANCE_EPSILON == 1

TRANSACTION_TYPES_IN ==
    <<"Erträge", "Überweisung", "Zinszahlung", "Prämie", "Steuern",
      "Empfehlung">>
TRANSACTION_TYPES_OUT == <<"Handel", "Kartentransaktion", "Geschenk">>

ALL_TYPES == TRANSACTION_TYPES_IN \o TRANSACTION_TYPES_OUT

Range(f) == {f[x] : x \in DOMAIN f}

\* The tokens of the universe that begin with a longer spelling of a
\* category, and what is left of them without it.
PrefixRest == (<<"Handelsblatt", "Handel">> :> "sblatt")

TokenStartsWith(tok, t) == tok = t \/ <<tok, t>> \in DOMAIN PrefixRest

\* segment.startsWith(t)
StartsWith(segment, t) == TokenStartsWith(segment[1], t)

\* segment.match(MONEY_PATTERN) || []
MoneyMatches(segment) == SelectSeq(segment, MONEY_PATTERN)

\* an unknown category that is returned without a diagnostic
findTransactionType_Silent(segment, allTypes) ==
    LET found == {k \in DOMAIN allTypes : StartsWith(segment, allTypes[k])}
        first == CHOOSE k \in found : \A m \in found : k <= m
    IN  [type |-> IF found # {} THEN allTypes[first]
                  ELSE SplitWS(segment)[1],
         logged |-> <<>>]

\* findTransactionType: the category, and what it logged
findTransactionType(segment, allTypes) ==
    LET found == {k \in DOMAIN allTypes : StartsWith(segment, allTypes[k])}
        first == CHOOSE k \in found : \A m \in found : k <= m
        firstWord == SplitWS(segment)[1]
    IN  IF found # {}
        THEN [type |-> allTypes[first], logged |-> <<>>]
        ELSE [type |-> firstWord,
              logged |-> <<[kind |-> "unknown_type", type |-> firstWord]>>]

\* a first row that is an inflow unless its category is typically outgoing
determineTransactionDirection_NotOutgoing(prevBalance, currentBalance, type) ==
    IF prevBalance # Null
    THEN currentBalance > prevBalance[1]
    ELSE type \notin Range(TRANSACTION_TYPES_OUT)

\* a direction that lets a known category decide before the balances
determineTransactionDirection_ByCategory(prevBalance, currentBalance, type) ==
    IF type \in Range(TRANSACTION_TYPES_IN) THEN TRUE
    ELSE IF type \in Range(TRANSACTION_TYPES_OUT) THEN FALSE
    ELSE prevBalance # Null /\ currentBalance > prevBalance[1]

\* a direction that takes an unchanged balance for an incoming payment
determineTransactionDirection_AtLeast(prevBalance, currentBalance, type) ==
    IF prevBalance # Null
    THEN currentBalance >= prevBalance[1]
    ELSE type \in Range(TRANSACTION_TYPES_IN)

\* determineTransactionDirection: TRUE for an incoming payment
determineTransactionDirection(prevBalance, currentBalance, type) ==
    IF prevBalance # Null
    THEN currentBalance > prevBalance[1]
    ELSE type \in Range(TRANSACTION_TYPES_IN)

\* description.replaceAll(sub, ''): the token goes wherever it stands
RemoveLeading_EveryOccurrence(description, sub) ==
    [k \in DOMAIN description |->
        IF description[k] = sub THEN ""
        ELSE IF k = 1 /\ <<description[1], sub>> \in DOMAIN PrefixRest
        THEN PrefixRest[<<description[1], sub>>]
        ELSE description[k]]

\* description.replace(sub, '') where sub starts the string
RemoveLeading(description, sub) ==
    LET tok == description[1]
        rest == IF tok = sub THEN "" ELSE PrefixRest[<<tok, sub>>]
    IN  <<rest>> \o Tail(description)

\* description.replace(money, ''): the first occurrence goes
RECURSIVE RemoveFirst(_, _)
RemoveFirst(description, money) ==
    IF description = <<>> THEN <<>>
    ELSE IF Head(description) = money THEN <<"">> \o Tail(description)
    ELSE <<Head(description)>> \o RemoveFirst(Tail(description), money)

\* only the amount and the balance are taken out
RemoveAll_LastTwo(description, moneyMatches) ==
    LET n == Len(moneyMatches)
    IN  RemoveFirst(RemoveFirst(description, moneyMatches[n - 1]),
                    moneyMatches[n])

\* moneyMatches.forEach((money) => description.replace(money, ''))
RECURSIVE RemoveAll(_, _)
RemoveAll(description, moneyMatches) ==
    IF moneyMatches = <<>> THEN description
    ELSE RemoveAll(RemoveFirst(description, Head(moneyMatches)),
                   Tail(moneyMatches))

extractDescription(segment, type, moneyMatches) ==
    LET d1 == IF type # "" THEN Trim(RemoveLeading(segment, type))
              ELSE segment
    IN  Trim(RemoveAll(d1, moneyMatches))

\* columns whose unused one is filled with 0
AssignColumns_ZeroPlaceholder(isIncome, amount) ==
    [received |-> IF isIncome THEN Some(amount) ELSE Some(0),
     spent |-> IF isIncome THEN Some(0) ELSE Some(amount)]

\* the column the amount is assigned to; the other one stays null
AssignColumns(isIncome, amount) ==
    [received |-> IF isIncome THEN Some(amount) ELSE Null,
     spent |-> IF isIncome THEN Null ELSE Some(amount)]

\* parseTransactionSegment: the record, and what was logged on the way
parseTransactionSegment(segment, date, allTypes, prevBalance) ==
    LET moneyMatches == MoneyMatches(segment)
        n == Len(moneyMatches)
        ft == findTransactionType(segment, allTypes)
        balance == parseAmountEU(moneyMatches[n])
        amount == parseAmountEU(moneyMatches[n - 1])
        isIncome == determineTransactionDirection(prevBalance, balance,
                                                  ft.type)
        columns == AssignColumns(isIncome, amount)
    IN  [logged |-> ft.logged,
         transaction |->
            IF n >= 2
            THEN [date |-> date, type |-> ft.type,
                  description |->
                      Some(extractDescription(segment, ft.type, moneyMatches)),
                  received |-> columns.received, spent |-> columns.spent,
                  balance |-> balance]
            ELSE [date |-> date, type |-> ft.type, description |-> Null,
                  received |-> Null, spent |-> Null, balance |-> 0]]

-----------------------------------------------------------------------------
(* The balance validator.                                                  *)

\* an expected balance that leaves the spent amount out
ExpectedBalance_NoSpent(transaction, prevBalance) ==
    prevBalance[1] + OrZero(transaction.received)

\* previousBalance + (received || 0) - (spent || 0), in cents
ExpectedBalance(transaction, prevBalance) ==
    prevBalance[1] + OrZero(transaction.received) - OrZero(transaction.spent)

\* Math.abs(expectedBalance - balance) > BALANCE_EPSILON on IEEE doubles,
\* given the exact difference in cents.  No difference gives no rounding
\* error, and a difference of two cents or more is far from 0.01.  At exactly
\* one cent the doubles decide: |100 + 50 - 150.01| is 0.009999999999990905
\* (not above 0.01) and |1 + 0.5 - 1.51| is 0.010000000000000009 (above).
\* Both outcomes are possible.
FloatExceedsEpsilon(diffCents) ==
    IF diffCents = BALANCE_EPSILON THEN {TRUE, FALSE}
    ELSE {diffCents > BALANCE_EPSILON}

BalanceDiagnostic(transaction, prevBalance) ==
    [kind |-> "balance", transaction |-> transaction,
     expected |-> ExpectedBalance(transaction, prevBalance),
     actual |-> transaction.balance]

\* a validator that compares without Math.abs
validateBalance_NoAbs(transaction, prevBalance) ==
    IF prevBalance = Null THEN {<<>>}
    ELSE {IF exceeds THEN <<BalanceDiagnostic(transaction, prevBalance)>>
          ELSE <<>> :
          exceeds \in FloatExceedsEpsilon(
              ExpectedBalance(transaction, prevBalance)
              - transaction.balance)}

\* validateBalance: the diagnostics it may log (it returns nothing and
\* assigns nothing)
validateBalance(transaction, prevBalance) ==
    IF prevBalance = Null THEN {<<>>}
    ELSE {IF exceeds THEN <<BalanceDiagnostic(transaction, prevBalance)>>
          ELSE <<>> :
          exceeds \in FloatExceedsEpsilon(
              Abs(ExpectedBalance(transaction, prevBalance)
                  - transaction.balance))}

-----------------------------------------------------------------------------
(* processTransactions, one action per iteration of its outer loop.        *)

HEADER_ACCOUNT ==
    <<"PRODUKT", "ANFANGSSALDO", "ZAHLUNGSEINGANG", "ZAHLUNGSAUSGANG",
      "ENDSALDO">>
HEADER_TRANSACTIONS ==
    <<"DATUM", "TYP", "BESCHREIBUNG", "ZAHLUNGSEINGANG", "ZAHLUNGSAUSGANG",
      "SALDO">>
HEADER_CASH ==
    <<"DATUM", "ZAHLUNGSART", "GELDMARKTFONDS", "STÜCK", "KURS", "PRO",
      "STÜCK", "BETRAG">>

\* the index the scan starts at: past a leading table header
StartIndex(ls) ==
    IF Len(ls) > 0 /\ ls[1] = HEADER_TRANSACTIONS THEN 2 ELSE 1

\* the inner loop: from j, the lines up to the next date anchor
RECURSIVE CollectRest(_, _, _)
CollectRest(ls, j, restLines) ==
    IF j > Len(ls) THEN [threw |-> FALSE, j |-> j, restLines |-> restLines]
    ELSE LET d == tryParseDate(ls, j)
         IN  IF d.kind = "throw"
             THEN [threw |-> TRUE, j |-> j, restLines |-> restLines]
             ELSE IF d.kind = "null"
             THEN CollectRest(ls, j + 1, Append(restLines, ls[j]))
             ELSE [threw |-> FALSE, j |-> j, restLines |-> restLines]

\* the lines of the segment of the anchor d: its leftover text, then the
\* lines from its nextIndex on
SegmentOf(ls, d) ==
    CollectRest(ls, d.nextIndex,
                IF d.restOfLine # Null THEN <<d.restOfLine[1]>> ELSE <<>>)

\* transactions.unshift(transaction)
PushRecord_Unshift(ts, transaction) == <<transaction>> \o ts

\* transactions.push(transaction)
PushRecord(ts, transaction) == Append(ts, transaction)

\* a carried balance that is set by the first record and then kept
NextPreviousBalance_KeepFirst(prev, transaction) ==
    IF prev = Null THEN Some(transaction.balance) ELSE prev

\* a carried balance that keeps the last balance the statement printed
NextPreviousBalance_LastPrinted(prev, transaction) ==
    IF transaction.received = Null /\ transaction.spent = Null THEN prev
    ELSE Some(transaction.balance)

\* previousBalance = transaction.balance
NextPreviousBalance(prev, transaction) == Some(transaction.balance)

PtInit(ls) ==
    /\ pc = "scan"
    /\ lines = ls
    /\ i = StartIndex(ls)
    /\ dateInfo = NoDate
    /\ transactions = <<>>
    /\ previousBalance = Null
    /\ log = <<>>
    /\ hist = <<>>

\* line i starts no date: i++
PtSkip ==
    /\ pc = "scan"
    /\ i <= Len(lines)
    /\ tryParseDate(lines, i).kind = "null"
    /\ dateInfo' = NoDate
    /\ i' = i + 1
    /\ UNCHANGED <<pc, lines, transactions, previousBalance, log, hist>>

\* line i starts a date: the segment is collected, parsed, validated and
\* appended, and the scan resumes at the next anchor
PtRow ==
    /\ pc = "scan"
    /\ i <= Len(lines)
    /\ \E d \in {tryParseDate(lines, i)} :
        /\ d.kind = "date"
        /\ \E seg \in {SegmentOf(lines, d)} :
            /\ ~seg.threw
            /\ \E restText \in {JoinSpace(seg.restLines)} :
               \E parsed \in {parseTransactionSegment(restText, d.date,
                                              ALL_TYPES, previousBalance)} :
               \E warned \in validateBalance(parsed.transaction,
                                             previousBalance) :
                /\ log' = log \o parsed.logged \o warned
                /\ hist' = Append(hist,
                      [anchor |-> i, nextIndex |-> d.nextIndex,
                       restOfLine |-> d.restOfLine, j |-> seg.j,
                       segment |-> restText, prev |-> previousBalance,
                       logged |-> parsed.logged \o warned])
                /\ transactions' = PushRecord(transactions, parsed.transaction)
                /\ previousBalance' = NextPreviousBalance(previousBalance,
                                                        parsed.transaction)
                /\ dateInfo' = d
                /\ i' = seg.j
    /\ UNCHANGED <<pc, lines>>

\* toJSDate throws, at line i or while the segment is collected: the Error
\* leaves processTransactions, which returns nothing
PtThrow ==
    /\ pc = "scan"
    /\ i <= Len(lines)
    /\ LET d == tryParseDate(lines, i)
       IN  \/ d.kind = "throw"
           \/ d.kind = "date" /\ SegmentOf(lines, d).threw
    /\ pc' = "thrown"
    /\ UNCHANGED <<lines, i, dateInfo, transactions, previousBalance, log,
                   hist>>

\* the loop ends: return transactions
PtReturn ==
    /\ pc = "scan"
    /\ i > Len(lines)
    /\ pc' = "returned"
    /\ UNCHANGED <<lines, i, dateInfo, transactions, previousBalance, log,
                   hist>>

-----------------------------------------------------------------------------
(* The chapters processTransactions is run on: up to MaxBlocks blocks of   *)
(* lines, each a dated row of the ledger or a stray line.                  *)

MaxBlocks == 3

Blocks ==
    { \* three-line dates with an amount and a balance
      << <<"1">>, <<"Jan.">>, <<"2021">>,
         <<"Überweisung", "Test", "transaction", "100,00 €", "100,00 €">> >>,
      << <<"3">>, <<"März">>, <<"2022">>,
         <<"Überweisung", "500,00 €", "500,00 €">> >>,
      << <<"21">>, <<"Apr.">>, <<"2021">>,
         <<"Handel", "236,00 €", "264,00 €">> >>,
      \* one cent off the balance that a row of 100,00 € leaves
      << <<"2">>, <<"Mai">>, <<"2021">>,
         <<"Prämie", "50,00 €", "150,01 €">> >>,
      \* two-line dates: the year shares its line with text, or stands alone
      << <<"2", "Feb">>, <<"2021", "Handel", "Sale">>,
         <<"50,00 €", "150,00 €">> >>,
      << <<"1", "Jan">>, <<"2021">>,
         <<"Überweisung", "100,00 €", "100,00 €">> >>,
      \* a category that is not in the vocabulary
      << <<"31">>, <<"Dez.">>, <<"2021">>,
         <<"Gebühr", "x", "10,00 €", "0,00 €">> >>,
      \* an amount of zero on the balance that a row of 100,00 € leaves
      << <<"7">>, <<"Juli">>, <<"2021">>,
         <<"Zinszahlung", "0,00 €", "100,00 €">> >>,
      \* a row with one monetary substring
      << <<"3">>, <<"Juni">>, <<"2021">>, <<"Steuern", "note", "10,00 €">> >>,
      \* a month-shaped token that is not in the month table
      << <<"3">>, <<"Foo">>, <<"2021">>,
         <<"Handel", "x", "10,00 €", "10,00 €">> >>,
      << <<"3", "Foo">>, <<"2021">> >>,
      \* stray lines
      << <<"7">> >>,
      << <<"Kauf">> >>,
      << HEADER_TRANSACTIONS >> }

RECURSIVE Flatten(_)
Flatten(seqs) ==
    IF seqs = <<>> THEN <<>> ELSE Head(seqs) \o Flatten(Tail(seqs))

Inputs ==
    {Flatten(bs) : bs \in UNION {[1..n -> Blocks] : n \in 0..MaxBlocks}}

UnusedRh == /\ pages = <<>> /\ cleaned = <<>> /\ calls = 0
UnusedPc ==
    /\ allLines = <<>> /\ cur = 1 /\ currentChapter = ""
    /\ currentContent = <<>> /\ headerSeenInChapter = FALSE /\ emitted = <<>>

Init == (\E ls \in Inputs : PtInit(ls)) /\ UnusedRh /\ UnusedPc

Next ==
    \/ PtSkip /\ UNCHANGED <<rhVars, pcVars>>
    \/ PtRow /\ UNCHANGED <<rhVars, pcVars>>
    \/ PtThrow /\ UNCHANGED <<rhVars, pcVars>>
    \/ PtReturn /\ UNCHANGED <<rhVars, pcVars>>

Spec == Init /\ [][Next]_vars

-----------------------------------------------------------------------------
(* Properties of processTransactions (specification Spec).                 *)

Min(S) == CHOOSE m \in S : \A x \in S : m <= x

RECURSIVE SortedSeq(_)
SortedSeq(S) ==
    IF S = {} THEN <<>> ELSE <<Min(S)>> \o SortedSeq(S \ {Min(S)})

\* the lines at which a date starts, from the start of the scan on
AnchorIndices(ls) ==
    {k \in StartIndex(ls)..Len(ls) : tryParseDate(ls, k).kind = "date"}

\* the lines at which a date with an unknown month stands
ThrowIndices(ls) ==
    {k \in StartIndex(ls)..Len(ls) : tryParseDate(ls, k).kind = "throw"}

BalanceWarnings(logged) == SelectSeq(logged, LAMBDA e : e.kind = "balance")

\* |prev.balance + (cur.received or 0) - (cur.spent or 0) - cur.balance|
Discontinuity(prevBal, t) ==
    Abs(prevBal + OrZero(t.received) - OrZero(t.spent) - t.balance)

\* C1: in the list processTransactions returns, every record after the first
\* either continues the balance of the record before it within 0.01, or a
\* balance diagnostic carrying that record was emitted when it was made.
C1_ContinuityOrDiagnostic ==
    pc = "returned" =>
        \A k \in 2..Len(transactions) :
            \/ Discontinuity(transactions[k - 1].balance, transactions[k])
                   <= BALANCE_EPSILON
            \/ \E e \in Range(hist[k].logged) :
                   e.kind = "balance" /\ e.transaction = transactions[k]

\* a returned list with a pair that continues and a pair that was reported
C1_Witness ==
    /\ pc = "returned"
    /\ \E k \in 2..Len(transactions) :
           /\ Discontinuity(transactions[k - 1].balance, transactions[k]) = 0
           /\ BalanceWarnings(hist[k].logged) = <<>>
    /\ \E k \in 2..Len(transactions) :
           /\ Discontinuity(transactions[k - 1].balance, transactions[k])
                  > BALANCE_EPSILON
           /\ Len(BalanceWarnings(hist[k].logged)) = 1

\* C2: processTransactions returns one record per date anchor of its lines,
\* in the order of the anchors' positions; the k-th record has the date of
\* the k-th anchor and was made at that anchor.
C2_OneRecordPerAnchorInOrder ==
    pc = "returned" =>
        LET idx == SortedSeq(AnchorIndices(lines))
        IN  /\ Len(transactions) = Len(idx)
            /\ \A k \in DOMAIN idx :
                   /\ transactions[k].date = tryParseDate(lines, idx[k]).date
                   /\ hist[k].anchor = idx[k]

\* two records of different dates returned, after a line that was skipped
C2_Witness ==
    /\ pc = "returned"
    /\ Len(transactions) = 2
    /\ transactions[1].date # transactions[2].date
    /\ hist[1].anchor > 1

\* C3: a record never has both received and spent; the one that is not used
\* is null; and a record made from a segment with two or more monetary
\* substrings has exactly one of them.
C3_ReceivedSpentExclusive ==
    \A k \in DOMAIN transactions :
        LET t == transactions[k]
        IN  /\ ~(t.received # Null /\ t.spent # Null)
            /\ Len(MoneyMatches(hist[k].segment)) >= 2
               => (t.received # Null) # (t.spent # Null)

\* an inflow, an outflow and a record of a segment with one monetary
\* substring
C3_Witness ==
    /\ \E k \in DOMAIN transactions :
           transactions[k].received # Null /\ transactions[k].spent = Null
    /\ \E k \in DOMAIN transactions :
           transactions[k].spent # Null /\ transactions[k].received = Null
    /\ \E k \in DOMAIN transactions :
           /\ Len(MoneyMatches(hist[k].segment)) < 2
           /\ transactions[k].spent = Null /\ transactions[k].received = Null

\* C4: for a row with an amount and a balance that has a previous balance,
\* the balances alone decide the direction: a balance above the previous one
\* makes it an inflow, a balance equal to or below it an outflow, whatever
\* the category.
C4_DirectionByBalance ==
    \A k \in DOMAIN transactions :
        LET t == transactions[k]
            prev == hist[k].prev
        IN  (prev # Null /\ Len(MoneyMatches(hist[k].segment)) >= 2) =>
                /\ t.balance > prev[1]
                   => (t.received # Null /\ t.spent = Null)
                /\ t.balance <= prev[1]
                   => (t.spent # Null /\ t.received = Null)

\* a "Handel" row whose balance rose (an inflow) and a row of an incoming
\* category whose balance fell (an outflow)
C4_Witness ==
    /\ \E k \in DOMAIN transactions :
           /\ hist[k].prev # Null
           /\ transactions[k].type = "Handel"
           /\ transactions[k].balance > hist[k].prev[1]
           /\ transactions[k].received # Null
    /\ \E k \in DOMAIN transactions :
           /\ hist[k].prev # Null
           /\ transactions[k].type \in Range(TRANSACTION_TYPES_IN)
           /\ transactions[k].balance < hist[k].prev[1]
           /\ transactions[k].spent # Null

\* the rows that stand before the first date with an unknown month
ValidRowsBefore(ls) ==
    {k \in AnchorIndices(ls) : k < Min(ThrowIndices(ls))}

\* C5: when valid rows precede a malformed row, the call still ends by
\* returning, and the records of those rows are in what it returns.
C5_PartialResultsReturned ==
    (pc \in {"returned", "thrown"} /\ ThrowIndices(lines) # {}
        /\ ValidRowsBefore(lines) # {})
    => LET idx == SortedSeq(ValidRowsBefore(lines))
       IN  /\ pc = "returned"
           /\ Len(transactions) >= Len(idx)
           /\ \A k \in DOMAIN idx :
                  transactions[k].date = tryParseDate(lines, idx[k]).date

\* the record of row k is what parseTransactionSegment made of its segment,
\* and after row k the carried balance is its balance
RecordKeptAsParsed(k) ==
    /\ transactions[k]
         = parseTransactionSegment(hist[k].segment, transactions[k].date,
                                   ALL_TYPES, hist[k].prev).transaction
    /\ k = Len(transactions) => previousBalance = Some(transactions[k].balance)

\* row k had the previous balance 500.00 and ends with 236,00 € and 264,00 €
IsScenario500(k) ==
    LET m == MoneyMatches(hist[k].segment)
    IN  /\ hist[k].prev = Some(50000)
        /\ Len(m) >= 2
        /\ m[Len(m) - 1] = "236,00 €" /\ m[Len(m)] = "264,00 €"

\* C6 as claimed: validateBalance logs nothing for the first row, nothing
\* when the balance continues within 0.01 and exactly one diagnostic when it
\* does not; the record is appended as parsed and its balance is carried; a
\* row of 236,00 € and 264,00 € after a balance of 500.00 gets one diagnostic
\* and the balance 264.
C6_Original ==
    \A k \in DOMAIN transactions :
        LET t == transactions[k]
            prev == hist[k].prev
            warned == BalanceWarnings(hist[k].logged)
        IN  /\ prev = Null => warned = <<>>
            /\ (prev # Null
                  /\ Discontinuity(prev[1], t) <= BALANCE_EPSILON)
               => warned = <<>>
            /\ (prev # Null
                  /\ Discontinuity(prev[1], t) > BALANCE_EPSILON)
               => (Len(warned) = 1 /\ warned[1].transaction = t)
            /\ RecordKeptAsParsed(k)
            /\ IsScenario500(k) => (Len(warned) = 1 /\ t.balance = 26400)

\* C6 as amended: nothing is logged for the first row and for a balance that
\* continues to the cent; exactly one diagnostic, carrying the record, is
\* logged for a difference of 0.02 or more; at a difference of exactly 0.01
\* the comparison of doubles decides, and at most one is logged.  The record
\* is appended as parsed and its balance is carried, and every row of a call
\* that returns is processed.  A row of 236,00 € and 264,00 € after a balance
\* of 500.00 is an outflow of 236 that continues the balance: no diagnostic,
\* balance 264.
C6_ValidateBalance ==
    /\ \A k \in DOMAIN transactions :
        LET t == transactions[k]
            prev == hist[k].prev
            warned == BalanceWarnings(hist[k].logged)
        IN  /\ prev = Null => warned = <<>>
            /\ (prev # Null /\ Discontinuity(prev[1], t) < BALANCE_EPSILON)
               => warned = <<>>
            /\ (prev # Null /\ Discontinuity(prev[1], t) = BALANCE_EPSILON)
               => Len(warned) <= 1
            /\ (prev # Null
                  /\ Discontinuity(prev[1], t) > BALANCE_EPSILON)
               => /\ Len(warned) = 1
                  /\ warned[1].transaction = t
                  /\ warned[1].actual = t.balance
                  /\ warned[1].expected
                       = prev[1] + OrZero(t.received) - OrZero(t.spent)
            /\ RecordKeptAsParsed(k)
            /\ IsScenario500(k)
               => /\ warned = <<>>
                  /\ t.spent = Some(23600) /\ t.received = Null
                  /\ t.balance = 26400
    /\ pc = "returned"
       => Len(transactions) = Cardinality(AnchorIndices(lines))

\* a first row, then a row that got a diagnostic, then a row that continues
\* the balance and got none
C6_Witness ==
    /\ Len(transactions) = 3
    /\ hist[1].prev = Null /\ BalanceWarnings(hist[1].logged) = <<>>
    /\ Discontinuity(hist[2].prev[1], transactions[2]) > BALANCE_EPSILON
    /\ Len(BalanceWarnings(hist[2].logged)) = 1
    /\ Discontinuity(hist[3].prev[1], transactions[3]) = 0
    /\ BalanceWarnings(hist[3].logged) = <<>>
    /\ pc = "returned"

\* a line that is one day token alone
IsBareDay(line) ==
    LET parts == SplitWS(Trim(line))
    IN  Len(parts) = 1 /\ DAY_PATTERN(parts[1])

\* line k holds exactly one token, an entry of the month table
IsTableMonthAt(ls, k) ==
    /\ k <= Len(ls)
    /\ Len(Trim(ls[k])) = 1
    /\ Trim(ls[k])[1] \in DOMAIN GERMAN_MONTHS

\* line k holds exactly one token, month-shaped but not in the month table
IsUnknownMonthAt(ls, k) ==
    /\ k <= Len(ls)
    /\ Len(Trim(ls[k])) = 1
    /\ MONTH_PATTERN(Trim(ls[k])[1])
    /\ Trim(ls[k])[1] \notin DOMAIN GERMAN_MONTHS

IsYearAt(ls, k) ==
    /\ k <= Len(ls)
    /\ Len(Trim(ls[k])) = 1
    /\ YEAR_PATTERN(Trim(ls[k])[1])

\* what C7 promises of the bare day token at line k: no date starts there,
\* no record is made there, and a scan standing at k moves to k + 1 with
\* nothing else changed
BareDayIsContent(k) ==
    /\ tryParseDate(lines, k) = NoDate
    /\ \A n \in DOMAIN hist' : hist'[n].anchor # k
    /\ (pc = "scan" /\ i = k)
       => /\ i' = k + 1
          /\ pc' = "scan"
          /\ UNCHANGED <<transactions, previousBalance, log>>

\* C7 as claimed: a bare day token followed by a line that is not an entry
\* of the month table is no date: tryParseDate answers "no match" and raises
\* nothing, and the scan moves on by one line.
C7_Original ==
    [][\A k \in 1..Len(lines) :
          (IsBareDay(lines[k]) /\ ~IsTableMonthAt(lines, k + 1))
          => BareDayIsContent(k)]_vars

\* C7 as amended: the same, except when the next line is a month-shaped
\* token that the table lacks and the line after it is a year (toJSDate
\* raises there).
C7_BareDayIsNoDate ==
    [][\A k \in 1..Len(lines) :
          (IsBareDay(lines[k]) /\ ~IsTableMonthAt(lines, k + 1)
              /\ ~(IsUnknownMonthAt(lines, k + 1) /\ IsYearAt(lines, k + 2)))
          => BareDayIsContent(k)]_vars

\* the scan has stepped over a bare day token before the first row, and
\* another bare day token lies inside that row's segment
C7_Witness ==
    /\ Len(lines) >= 2
    /\ IsBareDay(lines[1]) /\ ~IsTableMonthAt(lines, 2)
    /\ Len(hist) = 1 /\ hist[1].anchor = 2
    /\ \E k \in hist[1].nextIndex..(hist[1].j - 1) :
           IsBareDay(lines[k]) /\ ~IsTableMonthAt(lines, k + 1)

-----------------------------------------------------------------------------
(* Dates with a month the table lacks (specification Spec).                *)

UnknownMonthToken(tok) ==
    MONTH_PATTERN(tok) /\ tok \notin DOMAIN GERMAN_MONTHS

\* a date position starts at line k, in either layout, and its month token
\* is month-shaped but not an entry of the month table
UnknownMonthDateAt(ls, k) ==
    LET parts == SplitWS(Trim(ls[k]))
    IN  \/ /\ Len(parts) = 2
           /\ DAY_PATTERN(parts[1])
           /\ UnknownMonthToken(parts[2])
           /\ k + 1 <= Len(ls)
           /\ YEAR_PATTERN(SplitWS(Trim(ls[k + 1]))[1])
        \/ /\ IsBareDay(ls[k])
           /\ IsUnknownMonthAt(ls, k + 1)
           /\ IsYearAt(ls, k + 2)

\* C15: at a date position whose month token is not in the month table the
\* date scanner raises an Error and gives no date; the scan never passes
\* that line, processTransactions never returns, and no record is made for
\* that position or for any line after it.
C15_UnknownMonthAborts ==
    \A k \in 1..Len(lines) :
        UnknownMonthDateAt(lines, k)
        => /\ tryParseDate(lines, k).kind = "throw"
           /\ pc \in {"scan", "thrown"}
           /\ i <= k
           /\ \A n \in DOMAIN hist : hist[n].anchor < k
           /\ Len(transactions) = Len(hist)

\* the Error was raised in the two-line layout, while the segment of a row
\* was being collected, after an earlier row had been recorded
C15_Witness ==
    /\ pc = "thrown"
    /\ Len(transactions) = 1
    /\ tryParseDate(lines, i).kind = "date"
    /\ \E k \in (i + 1)..Len(lines) :
           /\ UnknownMonthDateAt(lines, k)
           /\ Len(SplitWS(Trim(lines[k]))) = 2

\* the last line of the anchor at line k: its year line
LastAnchorLine(ls, k) == IF IsTwoLineDate(ls, k) THEN k + 1 ELSE k + 2

\* the first anchor after line k, or the end of the lines
NextAnchor(ls, k) ==
    Min({n \in AnchorIndices(ls) : n > k} \cup {Len(ls) + 1})

\* C24: the segment of an anchor is its leftover text, if any, and then
\* the lines after its year line and before the next anchor, joined by
\* single spaces; the lines of the anchor itself are not among them.
C24_SegmentAfterYearLine ==
    \A k \in DOMAIN hist :
        LET a == hist[k].anchor
            leftover == IF hist[k].restOfLine # Null
                        THEN <<hist[k].restOfLine[1]>> ELSE <<>>
        IN  hist[k].segment
              = JoinSpace(leftover
                    \o SubSeq(lines, LastAnchorLine(lines, a) + 1,
                              NextAnchor(lines, LastAnchorLine(lines, a)) - 1))

\* C25: within one processTransactions call the previous balance used for
\* the k-th record is null for k = 1 and the balance of the (k-1)-th record
\* of the result for k > 1; that same value decides the record's direction
\* and is the one its balance is validated against; and the carried balance
\* is always the balance of the last record appended (null before the first).
C25_PreviousBalanceIsLastBalance ==
    /\ Len(hist) = Len(transactions)
    /\ previousBalance =
           IF transactions = <<>> THEN Null
           ELSE Some(transactions[Len(transactions)].balance)
    /\ \A k \in DOMAIN hist :
           LET t == transactions[k]
               prev == IF k = 1 THEN Null
                       ELSE Some(transactions[k - 1].balance)
           IN  /\ hist[k].prev = prev
               /\ Len(MoneyMatches(hist[k].segment)) >= 2 =>
                      (t.received # Null <=>
                          determineTransactionDirection(prev, t.balance,
                                                        t.type))
               /\ BalanceWarnings(hist[k].logged) \in validateBalance(t, prev)

\* three records returned: the first made without a previous balance, the
\* second an inflow on the first's balance, the third reported against the
\* second's balance, which differs from the first's
C25_Witness ==
    /\ pc = "returned"
    /\ Len(transactions) = 3
    /\ hist[1].prev = Null
    /\ transactions[1].balance # transactions[2].balance
    /\ transactions[2].received # Null
    /\ transactions[2].balance > transactions[1].balance
    /\ hist[3].prev = Some(transactions[2].balance)
    /\ Len(BalanceWarnings(hist[3].logged)) = 1

\* C26: a row with an amount and a balance whose balance equals the previous
\* balance is an outflow; if its amount is more than 0.01 a balance
\* diagnostic carrying the row is emitted, and if its amount is zero none is.
C26_UnchangedBalanceIsOutflow ==
    \A k \in DOMAIN transactions :
        LET t == transactions[k]
            prev == hist[k].prev
            warnings == BalanceWarnings(hist[k].logged)
        IN  (/\ prev # Null
             /\ Len(MoneyMatches(hist[k].segment)) >= 2
             /\ t.balance = prev[1]) =>
                /\ t.spent # Null /\ t.received = Null
                /\ t.spent[1] > BALANCE_EPSILON =>
                       /\ Len(warnings) = 1
                       /\ warnings[1].transaction = t
                /\ t.spent[1] = 0 => warnings = <<>>

\* a row of 100,00 € on an unchanged balance, reported, and a row of 0,00 €
\* on an unchanged balance, not reported
C26_Witness ==
    /\ \E k \in DOMAIN transactions :
           /\ hist[k].prev = Some(transactions[k].balance)
           /\ transactions[k].spent = Some(10000)
           /\ Len(BalanceWarnings(hist[k].logged)) = 1
    /\ \E k \in DOMAIN transactions :
           /\ hist[k].prev = Some(transactions[k].balance)
           /\ transactions[k].spent = Some(0)
           /\ transactions[k].type = "Zinszahlung"
           /\ BalanceWarnings(hist[k].logged) = <<>>

\* C27: a date anchor whose segment has fewer than two monetary substrings
\* still yields a record of the result: its received, spent and description
\* are null and its balance is 0; and the previous balance of the row after
\* it is 0, which decides that row's direction and is what it is validated
\* against.
C27_IncompleteRowCarriesZero ==
    /\ pc = "returned" =>
           \A a \in AnchorIndices(lines) :
               \E k \in DOMAIN hist : hist[k].anchor = a
    /\ \A k \in DOMAIN hist :
           Len(MoneyMatches(hist[k].segment)) < 2 =>
               LET t == transactions[k]
               IN  /\ t.date = tryParseDate(lines, hist[k].anchor).date
                   /\ t.received = Null /\ t.spent = Null
                   /\ t.description = Null
                   /\ t.balance = 0
                   /\ k = Len(hist) => previousBalance = Some(0)
                   /\ k < Len(hist) =>
                          LET u == transactions[k + 1]
                          IN  /\ hist[k + 1].prev = Some(0)
                              /\ Len(MoneyMatches(hist[k + 1].segment)) >= 2
                                 => (u.received # Null <=> u.balance > 0)
                              /\ BalanceWarnings(hist[k + 1].logged)
                                     \in validateBalance(u, Some(0))

\* after a row that left a balance of 100,00 €, a row with one monetary
\* substring, and after it a "Handel" row of 236,00 € with the balance
\* 264,00 €: taken for an inflow on a balance of 0 and reported
C27_Witness ==
    /\ pc = "returned"
    /\ Len(transactions) = 3
    /\ transactions[1].balance = 10000
    /\ Len(MoneyMatches(hist[2].segment)) = 1
    /\ transactions[2].balance = 0
    /\ hist[3].prev = Some(0)
    /\ transactions[3].type = "Handel"
    /\ transactions[3].received = Some(23600)
    /\ Len(BalanceWarnings(hist[3].logged)) = 1

\* a reader on which processTransactions has not been called yet
PtIdle ==
    /\ pc = "idle"
    /\ lines = <<>> /\ i = 1 /\ dateInfo = NoDate
    /\ transactions = <<>> /\ previousBalance = Null
    /\ log = <<>> /\ hist = <<>>

\* processTransactions(lines) is called: its locals are initialised
PtEnter ==
    /\ pc = "idle"
    /\ \E ls \in Inputs :
        /\ lines' = ls
        /\ i' = StartIndex(ls)
    /\ pc' = "scan"
    /\ transactions' = <<>>
    /\ previousBalance' = Null
    /\ UNCHANGED <<dateInfo, log, hist>>

InitTermination == PtIdle /\ UnusedRh /\ UnusedPc

NextTermination ==
    \/ PtEnter /\ UNCHANGED <<rhVars, pcVars>>
    \/ PtSkip /\ UNCHANGED <<rhVars, pcVars>>
    \/ PtRow /\ UNCHANGED <<rhVars, pcVars>>
    \/ PtThrow /\ UNCHANGED <<rhVars, pcVars>>
    \/ PtReturn /\ UNCHANGED <<rhVars, pcVars>>

\* what a step of the call does to pc and i: the call starts at line 1 or
\* 2, an iteration of the loop moves i forward and stays in the loop, and
\* the loop is left by the return or by the Error.  (That every iteration
\* does move i forward is part of C29 below.)
PtProgress ==
    \/ /\ pc = "idle"
       /\ pc' = "scan"
       /\ i' \in {1, 2}
    \/ /\ pc = "scan"
       /\ pc' = "scan"
       /\ i' \in (i + 1)..(Len(lines) + 1)
    \/ /\ pc = "scan"
       /\ pc' \in {"returned", "thrown"}
       /\ i' = i

\* the call as the program runs it: the loop is sequential code that waits
\* for nothing, so as long as the call has not ended it takes a step
SpecTermination ==
    /\ InitTermination /\ [][NextTermination]_vars
    /\ WF_<<pc, i>>(PtProgress)

\* C29: processTransactions terminates on every list of lines: the scan
\* ends (with the list or with the Error); every iteration of the loop moves
\* the index forward, by one line when no date starts at it and to an index
\* at or after the date's nextIndex, which is after the date's first line,
\* when one does; and the records never outnumber the lines.
C29_ScanTerminates ==
    /\ (pc = "scan") ~> (pc \in {"returned", "thrown"})
    /\ [][/\ PtProgress
          /\ (pc = "scan" /\ pc' = "scan") =>
              /\ i' > i
              /\ i' <= Len(lines) + 1
              /\ Len(transactions') = Len(transactions) => i' = i + 1
              /\ Len(transactions') # Len(transactions) =>
                     /\ Len(transactions') = Len(transactions) + 1
                     /\ hist'[Len(hist')].anchor = i
                     /\ hist'[Len(hist')].nextIndex > i
                     /\ i' >= hist'[Len(hist')].nextIndex]_vars
    /\ [](Len(transactions) <= Len(lines))

\* the scan has ended after a date of each layout and a line without a date
C29_Witness ==
    /\ pc = "returned"
    /\ i = Len(lines) + 1
    /\ Len(transactions) = 2
    /\ Len(lines) > 2 * Len(transactions)
    /\ IsTwoLineDate(lines, hist[1].anchor)
    /\ IsThreeLineDate(lines, hist[2].anchor)
    /\ hist[1].anchor > 1

-----------------------------------------------------------------------------
(* Page texts.  A page text is the sequence of its units: the words, the   *)
(* space SP and the line feed NL.  Two words never touch: what stands      *)
(* between two spaces of a line is one piece or nothing.                   *)

SP == " "
NL == "\n"

\* the units of a string given by its pieces
RECURSIVE Text(_)
Text(s) ==
    LET w == IF Head(s) = "" THEN <<>> ELSE <<Head(s)>>
    IN  IF Len(s) = 1 THEN w ELSE w \o <<SP>> \o Text(Tail(s))

\* String.prototype.split(sep) on units: the parts between the separators
RECURSIVE SplitOn(_, _)
SplitOn(units, sep) ==
    IF \A k \in DOMAIN units : units[k] # sep THEN <<units>>
    ELSE LET k == CHOOSE n \in DOMAIN units :
                      /\ units[n] = sep
                      /\ \A m \in 1..(n - 1) : units[m] # sep
         IN  <<SubSeq(units, 1, k - 1)>>
                 \o SplitOn(SubSeq(units, k + 1, Len(units)), sep)

\* the pieces of a line given by its units
PiecesOf(units) ==
    LET parts == SplitOn(units, SP)
    IN  [k \in DOMAIN parts |->
            IF parts[k] = <<>> THEN "" ELSE parts[k][1]]

\* page.split('\n'): the lines of a page
SplitLines(page) ==
    LET parts == SplitOn(page, NL)
    IN  [k \in DOMAIN parts |-> PiecesOf(parts[k])]

\* lines.join(' '), which glues what join('\n') keeps apart
RECURSIVE JoinLines_WithSpace(_)
JoinLines_WithSpace(ls) ==
    IF ls = <<>> THEN <<>>
    ELSE IF Len(ls) = 1 THEN Text(ls[1])
    ELSE Text(ls[1]) \o <<SP>> \o JoinLines_WithSpace(Tail(ls))

\* lines.join('\n')
RECURSIVE JoinLines(_)
JoinLines(ls) ==
    IF ls = <<>> THEN <<>>
    ELSE IF Len(ls) = 1 THEN Text(ls[1])
    ELSE Text(ls[1]) \o <<NL>> \o JoinLines(Tail(ls))

-----------------------------------------------------------------------------
(* removeHeaders.                                                          *)

EXACT_LINES_TO_REMOVE ==
    { <<"TRADE", "REPUBLIC", "BANK", "GMBH", "BRUNNENSTRASSE", "19-21",
        "10119", "BERLIN">>,
      <<"Trade", "Republic", "Bank", "GmbH">>,
      <<"Brunnenstraße", "19-21">>,
      <<"10119", "Berlin">>,
      <<"www.traderepublic.com", "Sitz", "der", "Gesellschaft:", "Berlin">>,
      <<"AG", "Charlottenburg", "HRB", "244347", "B">>,
      <<"Umsatzsteuer-ID", "DE307510626">>,
      <<"Geschäftsführer">>,
      <<"Andreas", "Torner">>,
      <<"Gernot", "Mittendorfer">>,
      <<"Christian", "Hecker">>,
      <<"Thomas", "Pischke">> }

\* /\d{2}\.\d{2}\.\d{4},/ , /\d{2}:\d{2}:\d{2}/ and /\d+/ : the tokens of
\* the universe that match
StampDateShaped == {"01.01.2021,", "31.12.2022,"}
StampTimeShaped == {"10:00:00", "23:59:59"}
DigitsShaped == DayShaped \cup YearShaped

\* /^Erstellt am \d{2}\.\d{2}\.\d{4}, \d{2}:\d{2}:\d{2} Seite \d+ von \d+$/
PATTERNS_TO_REMOVE(s) ==
    /\ Len(s) = 8
    /\ s[1] = "Erstellt" /\ s[2] = "am"
    /\ s[3] \in StampDateShaped /\ s[4] \in StampTimeShaped
    /\ s[5] = "Seite" /\ s[6] \in DigitsShaped
    /\ s[7] = "von" /\ s[8] \in DigitsShaped

\* a filter that compares the line as it stands, untrimmed
KeepLine_Untrimmed(line) ==
    line \notin EXACT_LINES_TO_REMOVE /\ ~PATTERNS_TO_REMOVE(line)

\* the filter callback of removeHeaders
KeepLine(line) ==
    LET trimmedLine == Trim(line)
    IN  trimmedLine \notin EXACT_LINES_TO_REMOVE
            /\ ~PATTERNS_TO_REMOVE(trimmedLine)

RECURSIVE FilterLines(_)
FilterLines(ls) ==
    IF ls = <<>> THEN <<>>
    ELSE (IF KeepLine(Head(ls)) THEN <<Head(ls)>> ELSE <<>>)
             \o FilterLines(Tail(ls))

removeHeaders(ps) ==
    [p \in DOMAIN ps |-> JoinLines(FilterLines(SplitLines(ps[p])))]

\* the lines the page texts given to removeHeaders are written from
PageLines ==
    { <<"Andreas", "Torner">>,
      <<"", "Andreas", "Torner", "">>,
      <<"", "Andreas">>,
      <<"Torner">>,
      <<"Erstellt", "am", "01.01.2021,", "10:00:00", "Seite", "1", "von",
        "2">>,
      <<"Erstellt", "am", "1.1.2021,", "10:00:00", "Seite", "1", "von",
        "2">>,
      <<"Some", "content", "Andreas", "Torner">>,
      EmptyString }

MaxPageLines == 3
MaxCalls == 2

\* a page text written line by line, a line feed after every line but the
\* last
PageText(ls) ==
    Flatten([k \in DOMAIN ls |->
                Text(ls[k]) \o (IF k < Len(ls) THEN <<NL>> ELSE <<>>)])

\* the lines on one page, and on two pages when there are two or more
PagesOf(ls) ==
    { <<PageText(ls)>> } \cup
    { <<PageText(SubSeq(ls, 1, c)), PageText(SubSeq(ls, c + 1, Len(ls)))>> :
          c \in {Len(ls) \div 2} \ {0} }

PageInputs ==
    UNION { PagesOf(ls) :
            ls \in UNION {[1..n -> PageLines] : n \in 1..MaxPageLines} }

UnusedPt ==
    /\ lines = <<>> /\ i = 1 /\ dateInfo = NoDate
    /\ transactions = <<>> /\ previousBalance = Null /\ log = <<>>
    /\ hist = <<>>

RhInit ==
    /\ pages \in PageInputs
    /\ cleaned = pages
    /\ calls = 0

\* cleaned = reader.removeHeaders(cleaned)
RhCall ==
    /\ calls < MaxCalls
    /\ cleaned' = removeHeaders(cleaned)
    /\ calls' = calls + 1
    /\ UNCHANGED pages

InitSanitize == RhInit /\ pc = "idle" /\ UnusedPt /\ UnusedPc

NextSanitize == RhCall /\ UNCHANGED <<pc, ptVars, pcVars>>

SpecSanitize == InitSanitize /\ [][NextSanitize]_vars

\* C10: removeHeaders is idempotent: whatever pages it was first given, a
\* further call on what it returned returns the same page texts.
C10_RemoveHeadersIdempotent ==
    calls >= 1 => /\ cleaned = removeHeaders(pages)
                  /\ removeHeaders(cleaned) = cleaned

\* called twice on pages of which the first call removed a line and kept one
C10_Witness ==
    /\ calls = 2
    /\ cleaned # pages
    /\ \E p \in DOMAIN cleaned : cleaned[p] # <<>>
    /\ \E p \in DOMAIN pages :
           \E k \in DOMAIN SplitLines(pages[p]) :
               ~KeepLine(SplitLines(pages[p])[k])

\* the line is boilerplate: trimmed, it is an entry of the fixed set or it
\* is a generated footer
IsBoilerplate(line) ==
    \/ Trim(line) \in EXACT_LINES_TO_REMOVE
    \/ PATTERNS_TO_REMOVE(Trim(line))

\* C23: removeHeaders returns as many pages as it was given, in the same
\* order, and every page it returns is made of the lines of the page it
\* was given that are not boilerplate, as they stood and in their order;
\* the pages it was given stay as they were.
C23_RemoveHeadersKeepsTheRest ==
    calls = 1 =>
        /\ pages \in PageInputs
        /\ Len(cleaned) = Len(pages)
        /\ \A p \in DOMAIN pages :
               cleaned[p]
                 = PageText(SelectSeq(SplitLines(pages[p]),
                                      LAMBDA l : ~IsBoilerplate(l)))

\* of two pages the first lost its one line, an indented boilerplate
\* line, and the second kept its two lines, one of them indented
C23_Witness ==
    /\ calls = 1
    /\ Len(pages) = 2
    /\ SplitLines(pages[1]) = << <<"", "Andreas", "Torner", "">> >>
    /\ cleaned[1] = <<>>
    /\ cleaned[2] = pages[2]
    /\ Len(SplitLines(cleaned[2])) = 2
    /\ SplitLines(cleaned[2])[1] = <<"", "Andreas">>

-----------------------------------------------------------------------------
(* processChapters, one action per iteration of its loop, by the branch    *)
(* the line takes, and one for the code after the loop.                    *)

CHAPTER_ACCOUNT_HOLDER == <<"KONTOINHABER">>
CHAPTER_ACCOUNT_OVERVIEW == <<"KONTOÜBERSICHT">>
CHAPTER_TRANSACTIONS_OVERVIEW == <<"UMSATZÜBERSICHT">>
CHAPTER_CASH_OVERVIEW == <<"BARMITTELÜBERSICHT">>
CHAPTER_TRANSACTION_OVERVIEW == <<"TRANSAKTIONSÜBERSICHT">>
CHAPTER_NOTES == <<"HINWEISE", "ZUM", "KONTOAUSZUG">>

\* this.chapters and this.headers
chapters ==
    {CHAPTER_ACCOUNT_OVERVIEW, CHAPTER_TRANSACTIONS_OVERVIEW,
     CHAPTER_CASH_OVERVIEW, CHAPTER_TRANSACTION_OVERVIEW, CHAPTER_NOTES}
headers == {HEADER_ACCOUNT, HEADER_TRANSACTIONS, HEADER_CASH}

\* the lines of the first page only
FlatMapSplit_FirstPage(ps) ==
    IF ps = <<>> THEN <<>> ELSE SplitLines(ps[1])

\* pages.flatMap((page) => page.split('\n'))
FlatMapSplit(ps) == Flatten([p \in DOMAIN ps |-> SplitLines(ps[p])])

\* a callback that is made for a chapter without content too
Callback_AlsoEmpty(em, chapterName, content) ==
    Append(em, [chapterName |-> chapterName, lines |-> content])

\* callback(currentChapter, currentContent) when there is content
Callback(em, chapterName, content) ==
    IF Len(content) > 0
    THEN Append(em, [chapterName |-> chapterName, lines |-> content])
    ELSE em

\* a header branch that keeps each header string once
HeaderBranch_PerString(content, seen, trimmedLine) ==
    IF \A k \in DOMAIN content : content[k] # trimmedLine
    THEN [content |-> Append(content, trimmedLine), seen |-> TRUE]
    ELSE [content |-> content, seen |-> seen]

\* the header branch: the first header line of the chapter is kept
HeaderBranch(content, seen, trimmedLine) ==
    IF ~seen
    THEN [content |-> Append(content, trimmedLine), seen |-> TRUE]
    ELSE [content |-> content, seen |-> seen]

PcInit(ps) ==
    /\ pc = "chapters"
    /\ pages = ps
    /\ allLines = FlatMapSplit(ps)
    /\ cur = 1
    /\ currentChapter = CHAPTER_ACCOUNT_HOLDER
    /\ currentContent = <<>>
    /\ headerSeenInChapter = FALSE
    /\ emitted = <<>>

\* the line is a chapter heading
PcHeading ==
    /\ pc = "chapters"
    /\ cur <= Len(allLines)
    /\ \E trimmedLine \in {Trim(allLines[cur])} :
        /\ trimmedLine \in chapters
        /\ emitted' = Callback(emitted, currentChapter, currentContent)
        /\ currentChapter' = trimmedLine
        /\ currentContent' = <<>>
        /\ headerSeenInChapter' = FALSE
    /\ cur' = cur + 1
    /\ UNCHANGED <<pc, pages, allLines>>

\* the line is a table header
PcHeader ==
    /\ pc = "chapters"
    /\ cur <= Len(allLines)
    /\ \E trimmedLine \in {Trim(allLines[cur])} :
        /\ trimmedLine \notin chapters
        /\ trimmedLine \in headers
        /\ \E r \in {HeaderBranch(currentContent, headerSeenInChapter,
                                  trimmedLine)} :
            /\ currentContent' = r.content
            /\ headerSeenInChapter' = r.seen
    /\ cur' = cur + 1
    /\ UNCHANGED <<pc, pages, allLines, currentChapter, emitted>>

\* any other line: kept unless it is blank
PcLine ==
    /\ pc = "chapters"
    /\ cur <= Len(allLines)
    /\ \E trimmedLine \in {Trim(allLines[cur])} :
        /\ trimmedLine \notin chapters
        /\ trimmedLine \notin headers
        /\ currentContent' = IF trimmedLine # EmptyString
                             THEN Append(currentContent, trimmedLine)
                             ELSE currentContent
    /\ cur' = cur + 1
    /\ UNCHANGED <<pc, pages, allLines, currentChapter,
                   headerSeenInChapter, emitted>>

\* after the loop: the last chapter
PcFinish ==
    /\ pc = "chapters"
    /\ cur > Len(allLines)
    /\ emitted' = Callback(emitted, currentChapter, currentContent)
    /\ pc' = "done"
    /\ UNCHANGED <<pages, allLines, cur, currentChapter, currentContent,
                   headerSeenInChapter>>

\* the lines the page texts given to processChapters are written from
ChapterLines ==
    { CHAPTER_ACCOUNT_OVERVIEW,
      <<"">> \o CHAPTER_TRANSACTIONS_OVERVIEW,
      HEADER_TRANSACTIONS,
      HEADER_CASH \o <<"">>,
      <<"", "Row", "1">>,
      \* a line of one space
      <<"", "">> }

MaxChapterLines == 4

ChapterInputs ==
    UNION { PagesOf(ls) :
            ls \in UNION {[1..n -> ChapterLines] : n \in 1..MaxChapterLines} }

InitChapters ==
    /\ \E ps \in ChapterInputs : PcInit(ps)
    /\ cleaned = <<>> /\ calls = 0
    /\ UnusedPt

NextChapters ==
    \/ PcHeading /\ UNCHANGED <<ptVars, cleaned, calls>>
    \/ PcHeader /\ UNCHANGED <<ptVars, cleaned, calls>>
    \/ PcLine /\ UNCHANGED <<ptVars, cleaned, calls>>
    \/ PcFinish /\ UNCHANGED <<ptVars, cleaned, calls>>

SpecChapters == InitChapters /\ [][NextChapters]_vars

-----------------------------------------------------------------------------
(* The chapters of a line stream, read off the stream itself.              *)

\* where a chapter starts: at 0 the initial one, else at its heading line
ChapterStarts(ls) == {0} \cup {k \in DOMAIN ls : Trim(ls[k]) \in chapters}

ChapterName(ls, s) == IF s = 0 THEN CHAPTER_ACCOUNT_HOLDER ELSE Trim(ls[s])

\* the trimmed source lines of the chapter that starts at s
SourceLines(ls, s) ==
    LET e == Min({k \in ChapterStarts(ls) : k > s} \cup {Len(ls) + 1})
    IN  [k \in 1..(e - 1 - s) |-> Trim(ls[s + k])]

\* the chapters that have a line that is not blank, in order
EmittedStarts(ls) ==
    SortedSeq({s \in ChapterStarts(ls) :
                  \E k \in DOMAIN SourceLines(ls, s) :
                      SourceLines(ls, s)[k] # EmptyString})

Count(seq, x) == Cardinality({k \in DOMAIN seq : seq[k] = x})

\* the lines before index k that are neither blank nor table headers
PlainBefore(seq, k) ==
    Cardinality({m \in 1..(k - 1) :
                    seq[m] # EmptyString /\ seq[m] \notin headers})

\* one callback per chapter with content, in order, under its name
EmittedPerChapter ==
    LET st == EmittedStarts(allLines)
    IN  /\ Len(emitted) = Len(st)
        /\ \A n \in DOMAIN st :
               emitted[n].chapterName = ChapterName(allLines, st[n])

\* C9 as claimed: in every emitted chapter every table-header string that
\* occurs among the chapter's source lines is in the content exactly once,
\* at the position of its first occurrence.
C9_Original ==
    pc = "done" =>
        /\ EmittedPerChapter
        /\ \A n \in DOMAIN emitted :
            LET src == SourceLines(allLines, EmittedStarts(allLines)[n])
                content == emitted[n].lines
            IN  \A h \in headers :
                    (\E k \in DOMAIN src : src[k] = h)
                    => /\ Count(content, h) = 1
                       /\ \E c \in DOMAIN content :
                           /\ content[c] = h
                           /\ PlainBefore(content, c)
                                = PlainBefore(src,
                                      Min({k \in DOMAIN src : src[k] = h}))

\* C9 as amended: in every emitted chapter whose source lines hold table
\* headers, the content holds exactly one table-header line, the first one
\* of the chapter whichever of the header strings it is, at the position of
\* its occurrence; every later header line of the chapter is dropped, and
\* the decision starts afresh at every chapter heading.
C9_FirstHeaderOfChapterKept ==
    pc = "done" =>
        /\ EmittedPerChapter
        /\ \A n \in DOMAIN emitted :
            LET src == SourceLines(allLines, EmittedStarts(allLines)[n])
                content == emitted[n].lines
                hs == {k \in DOMAIN src : src[k] \in headers}
                kept == {c \in DOMAIN content : content[c] \in headers}
            IN  /\ hs = {} => kept = {}
                /\ hs # {}
                   => /\ Cardinality(kept) = 1
                      /\ \A c \in kept :
                          /\ content[c] = src[Min(hs)]
                          /\ PlainBefore(content, c)
                               = PlainBefore(src, Min(hs))

\* a chapter in which a later header line was dropped, and after it a
\* chapter that keeps the same header string again
C9_Witness ==
    /\ pc = "done"
    /\ \E n \in DOMAIN emitted : \E n2 \in DOMAIN emitted :
        LET src == SourceLines(allLines, EmittedStarts(allLines)[n])
        IN  /\ n < n2
            /\ Cardinality({k \in DOMAIN src : src[k] \in headers}) >= 2
            /\ \E h \in headers :
                /\ Count(emitted[n].lines, h) = 1
                /\ Count(emitted[n2].lines, h) = 1

\* the lines of seq that are not table headers
PlainLines(seq) == SelectSeq(seq, LAMBDA l : l \notin headers)

\* C17: processChapters calls the callback once for every run of lines
\* between chapter headings (the run before the first heading and the run
\* that ends with the stream included) that has a line to keep, in the
\* order of the document and under the name of the heading that opened the
\* run; never with empty content; no heading line is in any content; and
\* the lines that are neither blank, nor headings, nor table headers are,
\* trimmed, once and in their order in the content of the run they stand in.
C17_OneCallbackPerChapter ==
    /\ \A n \in DOMAIN emitted :
           /\ emitted[n].lines # <<>>
           /\ \A c \in DOMAIN emitted[n].lines :
                  /\ emitted[n].lines[c] \notin chapters
                  /\ emitted[n].lines[c] # EmptyString
                  /\ Trim(emitted[n].lines[c]) = emitted[n].lines[c]
    /\ pc = "done" =>
        /\ EmittedPerChapter
        /\ \A n \in DOMAIN emitted :
               PlainLines(emitted[n].lines)
                 = SelectSeq(PlainLines(SourceLines(allLines,
                                 EmittedStarts(allLines)[n])),
                             LAMBDA l : l # EmptyString)

\* lines before the first heading were handed over under the name of the
\* account holder chapter, a heading without lines was passed over, and the
\* run that ends with the stream was handed over with a line that stood
\* indented in the page
C17_Witness ==
    /\ pc = "done"
    /\ Len(emitted) = 2
    /\ emitted[1].chapterName = CHAPTER_ACCOUNT_HOLDER
    /\ Cardinality(ChapterStarts(allLines)) = 3
    /\ emitted[2].lines = << <<"Row", "1">> >>
    /\ allLines[Len(allLines)] = <<"", "Row", "1">>

-----------------------------------------------------------------------------
(* The date scanner on its own: tryParseDate is given a date written in    *)
(* one of the two layouts, and then the same date with the month spelled   *)
(* the other way, with the trailing period added or taken away.            *)

\* the month token with its trailing period added or taken away
TogglePeriod(month) ==
    IF month \in DOMAIN WithPeriod THEN WithPeriod[month]
    ELSE CHOOSE m \in DOMAIN WithPeriod : WithPeriod[m] = month

\* the lines of a date: day, month and year on a line each, or "day month"
\* on one line and the year on the next
DateLines(day, month, year, twoLine) ==
    IF twoLine THEN << <<day, month>>, <<year>> >>
    ELSE << <<day>>, <<month>>, <<year>> >>

RespellMonth(ls) ==
    IF Len(ls) = 2
    THEN [ls EXCEPT ![1] = <<ls[1][1], TogglePeriod(ls[1][2])>>]
    ELSE [ls EXCEPT ![2] = <<TogglePeriod(ls[2][1])>>]

\* every date of the token universe, in both layouts
WrittenDates ==
    {DateLines(day, month, year, twoLine) :
        day \in DayShaped, month \in MonthShaped, year \in YearShaped,
        twoLine \in BOOLEAN}

\* lines as they stand around and inside a date: the tokens alone, two or
\* three of them on one line, the year followed by the start of the row,
\* a line with a leading space, a word, the empty line
LineForms ==
    { <<"31">>, <<"Feb.">>, <<"2021">>, <<"31", "Feb.">>,
      <<"2021", "Erträge", "Ertrag">>, <<"1", "Jan.", "2021">>,
      <<"", "1">>, <<"Handel">>, <<"">> }

MaxDateLines == 3

DateSamples == UNION {[1..n -> LineForms] : n \in 1..MaxDateLines}

TdInit ==
    /\ pc = "date"
    /\ \/ lines \in WrittenDates /\ i = 1
       \/ lines \in DateSamples /\ i \in 1..(Len(lines) + 1)
    /\ dateInfo = NoDate
    /\ hist = <<>>
    /\ transactions = <<>> /\ previousBalance = Null /\ log = <<>>

\* dateInfo = reader.tryParseDate(lines, i)
TdCall ==
    /\ pc = "date"
    /\ dateInfo' = tryParseDate(lines, i)
    /\ hist' = Append(hist, [lines |-> lines, result |-> dateInfo'])
    /\ pc' = "parsed"
    /\ UNCHANGED <<lines, i, transactions, previousBalance, log>>

\* the same date is written with the other spelling of the month
TdRespell ==
    /\ pc = "parsed"
    /\ Len(hist) = 1
    /\ lines \in WrittenDates /\ i = 1
    /\ lines' = RespellMonth(lines)
    /\ pc' = "date"
    /\ UNCHANGED <<i, dateInfo, hist, transactions, previousBalance, log>>

InitDate == TdInit /\ UnusedRh /\ UnusedPc

NextDate ==
    \/ TdCall /\ UNCHANGED <<rhVars, pcVars>>
    \/ TdRespell /\ UNCHANGED <<rhVars, pcVars>>

SpecDate == InitDate /\ [][NextDate]_vars

\* the month token of a date written by DateLines
MonthTokenOf(ls) == IF Len(ls) = 2 THEN ls[1][2] ELSE ls[2][1]

\* C8: a month spelling the date scanner accepts is accepted with and
\* without the trailing period, and both forms give the same month ordinal
\* in 0..11: when the first spelling gave a date, the other spelling gives
\* the same date.
C8_BothSpellingsAccepted ==
    (Len(hist) = 2 /\ hist[1].result.kind = "date")
    => /\ hist[2].result.kind = "date"
       /\ hist[2].result.date = hist[1].result.date
       /\ MonthTokenOf(hist[2].lines) \in DOMAIN GERMAN_MONTHS
       /\ GERMAN_MONTHS[MonthTokenOf(hist[2].lines)]
            = GERMAN_MONTHS[MonthTokenOf(hist[1].lines)]
       /\ GERMAN_MONTHS[MonthTokenOf(hist[1].lines)] \in 0..11

\* the tokens of a line
TokensOf(line) == SplitWS(Trim(line))

\* layout (a): line k is exactly "day month", with a month of the table,
\* and the first token of line k + 1 is a four-digit year
TwoLineLayout(ls, k) ==
    /\ k + 1 <= Len(ls)
    /\ Len(TokensOf(ls[k])) = 2
    /\ DAY_PATTERN(TokensOf(ls[k])[1])
    /\ TokensOf(ls[k])[2] \in DOMAIN GERMAN_MONTHS
    /\ YEAR_PATTERN(TokensOf(ls[k + 1])[1])

\* layout (b): lines k, k + 1 and k + 2 are the day alone, a month of the
\* table alone and the year alone
ThreeLineLayout(ls, k) ==
    /\ k + 2 <= Len(ls)
    /\ IsBareDay(ls[k])
    /\ IsTableMonthAt(ls, k + 1)
    /\ IsYearAt(ls, k + 2)

\* the date has the day, the month ordinal and the year of the three tokens
DateOfTokens(date, dayTok, monthTok, yearTok) ==
    /\ date.day = ParseInt[dayTok]
    /\ date.month = GERMAN_MONTHS[monthTok]
    /\ date.year = ParseInt[yearTok]

\* C16: tryParseDate(lines, i) gives a date in exactly the two layouts and
\* "no match" otherwise; in the two-line layout the tokens after the year
\* are the leftover text, in the three-line layout there is none and the
\* scan resumes at i + 3; the date has the day, the month ordinal and the
\* year of the three tokens.  (A month-shaped token that the table lacks
\* raises the Error of C15 and is left aside here.)
C16_AnchorInTwoLayouts ==
    \A n \in DOMAIN hist :
        LET ls == hist[n].lines
            r == hist[n].result
        IN  (i <= Len(ls) /\ ~UnknownMonthDateAt(ls, i))
            => /\ TwoLineLayout(ls, i)
                  => /\ r.kind = "date"
                     /\ r.restOfLine
                          = (IF Len(TokensOf(ls[i + 1])) = 1 THEN Null
                             ELSE Some(Tail(TokensOf(ls[i + 1]))))
                     /\ DateOfTokens(r.date, TokensOf(ls[i])[1],
                                     TokensOf(ls[i])[2],
                                     TokensOf(ls[i + 1])[1])
               /\ ThreeLineLayout(ls, i)
                  => /\ r.kind = "date"
                     /\ r.restOfLine = Null
                     /\ r.nextIndex = i + 3
                     /\ DateOfTokens(r.date, TokensOf(ls[i])[1],
                                     TokensOf(ls[i + 1])[1],
                                     TokensOf(ls[i + 2])[1])
               /\ (~TwoLineLayout(ls, i) /\ ~ThreeLineLayout(ls, i))
                  => r = NoDate

\* the same without the last sentence: where and what tryParseDate
\* recognises, whatever calendar date new Date makes of the tokens
C16_LayoutsOnly ==
    \A n \in DOMAIN hist :
        LET ls == hist[n].lines
            r == hist[n].result
        IN  (i <= Len(ls) /\ ~UnknownMonthDateAt(ls, i))
            => /\ TwoLineLayout(ls, i)
                  => /\ r.kind = "date"
                     /\ r.restOfLine
                          = (IF Len(TokensOf(ls[i + 1])) = 1 THEN Null
                             ELSE Some(Tail(TokensOf(ls[i + 1]))))
               /\ ThreeLineLayout(ls, i)
                  => /\ r.kind = "date"
                     /\ r.restOfLine = Null
                     /\ r.nextIndex = i + 3
               /\ (~TwoLineLayout(ls, i) /\ ~ThreeLineLayout(ls, i))
                  => r = NoDate

-----------------------------------------------------------------------------
(* The segment parser on its own: parseTransactionSegment is given a       *)
(* segment text and a previous balance.  The segments start with a word    *)
(* (or a space), as the rows of the ledger do, and go on with words,       *)
(* spaces and monetary substrings in any order.                            *)

SegmentTokens ==
    {"Überweisung", "Handel", "Handelsblatt", "Gebühr", "",
     "50,00 €", "100,00 €", "-5,00 €"}

MaxSegmentLen == 4

\* the segment of the test "should parse a simple transaction"
SimpleSegment ==
    <<"Überweisung", "Test", "transaction", "100,00 €", "100,00 €">>

Segments ==
    {s \in UNION {[1..n -> SegmentTokens] : n \in 1..MaxSegmentLen} :
        ~MONEY_PATTERN(s[1])} \cup {SimpleSegment}

PreviousBalances == {Null, Some(5000), Some(10000)}

\* new Date(2021, 0, 1)
SegmentDate == JSDate(2021, 0, 1)

PsInit ==
    /\ pc = "segment"
    /\ \E s \in Segments : lines = <<s>>
    /\ previousBalance \in PreviousBalances
    /\ i = 1 /\ dateInfo = NoDate
    /\ transactions = <<>> /\ log = <<>> /\ hist = <<>>

\* transaction = reader.parseTransactionSegment(segment, date, allTypes,
\*                                              previousBalance)
PsCall ==
    /\ pc = "segment"
    /\ \E parsed \in {parseTransactionSegment(lines[1], SegmentDate,
                                              ALL_TYPES, previousBalance)} :
        /\ transactions' = <<parsed.transaction>>
        /\ log' = parsed.logged
        /\ hist' = <<[segment |-> lines[1], prev |-> previousBalance,
                      logged |-> parsed.logged]>>
    /\ pc' = "parsed"
    /\ UNCHANGED <<lines, i, dateInfo, previousBalance>>

InitSegment == PsInit /\ UnusedRh /\ UnusedPc

NextSegment == PsCall /\ UNCHANGED <<rhVars, pcVars>>

SpecSegment == InitSegment /\ [][NextSegment]_vars

\* the segment with its leading category token taken out
WithoutCategory(segment, type) ==
    IF type = "" THEN segment
    ELSE [segment EXCEPT
             ![1] = IF segment[1] = type THEN ""
                    ELSE PrefixRest[<<segment[1], type>>]]

\* the segment with every monetary substring taken out
WithoutMoney(segment) ==
    [k \in DOMAIN segment |->
        IF MONEY_PATTERN(segment[k]) THEN "" ELSE segment[k]]

\* C11: for a segment with two or more monetary substrings the description
\* is the segment without the category token at its start and without any
\* of its monetary substrings, trimmed; the category word is kept wherever
\* it stands again in the text.  "Überweisung Test transaction 100,00 €
\* 100,00 €" without a previous balance gives category "Überweisung",
\* description "Test transaction", received 100, spent null, balance 100.
C11_DescriptionOfSegment ==
    pc = "parsed" =>
        LET segment == hist[1].segment
            t == transactions[1]
        IN  /\ Len(MoneyMatches(segment)) >= 2
               => /\ t.description
                       = Some(Trim(WithoutMoney(
                                       WithoutCategory(segment, t.type))))
                  /\ t.type # ""
                     => Count(t.description[1], t.type)
                          = Count(Tail(segment), t.type)
            /\ (segment = SimpleSegment /\ hist[1].prev = Null)
               => t = [date |-> SegmentDate, type |-> "Überweisung",
                       description |-> Some(<<"Test", "transaction">>),
                       received |-> Some(10000), spent |-> Null,
                       balance |-> 10000]

\* a parsed segment whose category word stands again in its text, between
\* the category and the amounts
C11_Witness ==
    /\ pc = "parsed"
    /\ Len(MoneyMatches(hist[1].segment)) >= 2
    /\ transactions[1].type = "Handel"
    /\ Count(Tail(hist[1].segment), "Handel") >= 1
    /\ Count(transactions[1].description[1], "Handel") >= 1

\* the amount of a record: the column that is filled
AmountOf(t) == IF t.received # Null THEN t.received[1] ELSE t.spent[1]

\* the last monetary substring is the balance and the one before it the
\* amount, whatever stands before them
LastTwoAreAmountAndBalance ==
    LET m == MoneyMatches(hist[1].segment)
        n == Len(m)
        t == transactions[1]
    IN  /\ t.balance = parseAmountEU(m[n])
        /\ (t.received # Null) # (t.spent # Null)
        /\ AmountOf(t) = parseAmountEU(m[n - 1])

\* C12 as claimed: with n >= 2 monetary substrings the balance is the last
\* and the amount the one before it; the first n - 2 take no part in either
\* and are left in the description as they stand.
C12_Original ==
    (pc = "parsed" /\ Len(MoneyMatches(hist[1].segment)) >= 2)
    => LET m == MoneyMatches(hist[1].segment)
       IN  /\ LastTwoAreAmountAndBalance
           /\ MoneyMatches(transactions[1].description[1])
                = SubSeq(m, 1, Len(m) - 2)

\* C12 as amended: with n >= 2 monetary substrings the balance is the last
\* and the amount the one before it; the first n - 2 take no part in either
\* and are removed from the description like the last two: no monetary
\* substring is left in the description.
C12_AmountAndBalance ==
    (pc = "parsed" /\ Len(MoneyMatches(hist[1].segment)) >= 2)
    => /\ LastTwoAreAmountAndBalance
       /\ MoneyMatches(transactions[1].description[1]) = <<>>

\* a parsed segment with three monetary substrings, the first of another
\* value than the amount and the balance
C12_Witness ==
    /\ pc = "parsed"
    /\ LET m == MoneyMatches(hist[1].segment)
       IN  /\ Len(m) = 3
           /\ m[1] # m[2] /\ m[1] # m[3]
           /\ transactions[1].balance = parseAmountEU(m[3])

\* no entry of the category vocabulary prefixes the segment
HasUnknownCategory(segment) ==
    \A t \in Range(ALL_TYPES) : ~StartsWith(segment, t)

UnknownTypeLogged(logged) ==
    SelectSeq(logged, LAMBDA e : e.kind = "unknown_type")

\* C13: a row whose segment no category prefixes keeps its first token as
\* its category, logs exactly one unknown-category diagnostic, and is
\* appended with its date and with the amounts and the balance that a known
\* category would have got; a call that returns has a record for every row.
C13_UnknownCategoryKept ==
    /\ \A k \in DOMAIN transactions :
        LET segment == hist[k].segment
            t == transactions[k]
            known == parseTransactionSegment(
                         <<"Handel">> \o Tail(segment), t.date, ALL_TYPES,
                         hist[k].prev).transaction
        IN  HasUnknownCategory(segment)
            => /\ t.type = segment[1]
               /\ Len(UnknownTypeLogged(hist[k].logged)) = 1
               /\ UnknownTypeLogged(hist[k].logged)[1].type = segment[1]
               /\ t.date = tryParseDate(lines, hist[k].anchor).date
               /\ t.received = known.received
               /\ t.spent = known.spent
               /\ t.balance = known.balance
    /\ pc = "returned"
       => Len(transactions) = Cardinality(AnchorIndices(lines))

\* a returned call with a row of the unknown category "Gebühr" that has an
\* amount and a balance, and a row after it
C13_Witness ==
    /\ pc = "returned"
    /\ \E k \in DOMAIN transactions :
        /\ k < Len(transactions)
        /\ HasUnknownCategory(hist[k].segment)
        /\ transactions[k].type = "Gebühr"
        /\ transactions[k].spent # Null \/ transactions[k].received # Null

\* C14: the first row of a chapter is the one row without a previous
\* balance, and when it has an amount and a balance its direction follows
\* its category alone: an inflow when the category is typically incoming,
\* an outflow for every other category, typically outgoing or unknown.
C14_FirstRowByCategory ==
    \A k \in DOMAIN transactions :
        LET t == transactions[k]
            m == MoneyMatches(hist[k].segment)
        IN  /\ hist[k].prev = Null <=> k = 1
            /\ (hist[k].prev = Null /\ Len(m) >= 2)
               => /\ t.type \in Range(TRANSACTION_TYPES_IN)
                     => (t.received = Some(parseAmountEU(m[Len(m) - 1]))
                            /\ t.spent = Null)
                  /\ t.type \notin Range(TRANSACTION_TYPES_IN)
                     => (t.spent = Some(parseAmountEU(m[Len(m) - 1]))
                            /\ t.received = Null)

\* a first row of an unknown category, booked as an outflow, and after it a
\* row of a typically incoming category that the balances made an outflow
C14_Witness ==
    /\ Len(transactions) >= 2
    /\ hist[1].prev = Null
    /\ transactions[1].type \notin Range(ALL_TYPES)
    /\ transactions[1].spent # Null
    /\ transactions[2].type \in Range(TRANSACTION_TYPES_IN)
    /\ transactions[2].spent # Null

\* C22: the column of a record that is filled holds the magnitude of the
\* amount: it is never negative, whatever sign the monetary substring of
\* the amount carries.
C22_AmountIsMagnitude ==
    \A k \in DOMAIN transactions :
        /\ transactions[k].received # Null
           => transactions[k].received[1] >= 0
        /\ transactions[k].spent # Null
           => transactions[k].spent[1] >= 0

-----------------------------------------------------------------------------
(* parse: removeHeaders, processChapters and, for every chapter            *)
(* UMSATZÜBERSICHT handed to the callback, processTransactions.  One       *)
(* reader is called several times.  What a call leaves behind in its       *)
(* locals stays in currentChapter, currentContent, headerSeenInChapter and *)
(* previousBalance, so that a call that read them would show.              *)

\* parse is given a string or an array of strings
StringInput(text) == [isArray |-> FALSE, value |-> text]
ArrayInput(ps) == [isArray |-> TRUE, value |-> ps]

\* a string taken as no pages at all
PageArrayOf_NoPages(input) ==
    IF input.isArray THEN input.value ELSE <<>>

\* Array.isArray(pages) ? pages : [pages]
PageArrayOf(input) ==
    IF input.isArray THEN input.value ELSE <<input.value>>

\* what the last call left in its locals
Memory ==
    [currentChapter |-> currentChapter,
     currentContent |-> currentContent,
     headerSeenInChapter |-> headerSeenInChapter,
     previousBalance |-> previousBalance]

\* the same for a reader that was never called
FreshMemory ==
    [currentChapter |-> EmptyString,
     currentContent |-> <<>>,
     headerSeenInChapter |-> FALSE,
     previousBalance |-> Null]

\* locals of processChapters that go on where the last call stopped
ChapterLocals_Carried(mem) ==
    [currentChapter |-> mem.currentChapter,
     currentContent |-> mem.currentContent,
     headerSeenInChapter |-> mem.headerSeenInChapter]

\* let currentChapter = CHAPTER_ACCOUNT_HOLDER; let currentContent = [];
\* let headerSeenInChapter = false
ChapterLocals(mem) ==
    [currentChapter |-> CHAPTER_ACCOUNT_HOLDER,
     currentContent |-> <<>>,
     headerSeenInChapter |-> FALSE]

\* let previousBalance = null
InitialBalance(mem) == Null

\* the loop of processChapters from line k on
RECURSIVE ChapterScan(_, _, _, _)
ChapterScan(ls, k, loc, em) ==
    IF k > Len(ls)
    THEN [emitted |-> Callback(em, loc.currentChapter, loc.currentContent),
          locals |-> loc]
    ELSE LET trimmedLine == Trim(ls[k])
         IN  IF trimmedLine \in chapters
             THEN ChapterScan(ls, k + 1,
                      [currentChapter |-> trimmedLine,
                       currentContent |-> <<>>,
                       headerSeenInChapter |-> FALSE],
                      Callback(em, loc.currentChapter, loc.currentContent))
             ELSE IF trimmedLine \in headers
             THEN LET r == HeaderBranch(loc.currentContent,
                                        loc.headerSeenInChapter, trimmedLine)
                  IN  ChapterScan(ls, k + 1,
                          [loc EXCEPT !.currentContent = r.content,
                                      !.headerSeenInChapter = r.seen],
                          em)
             ELSE ChapterScan(ls, k + 1,
                      IF trimmedLine # EmptyString
                      THEN [loc EXCEPT !.currentContent
                                          = Append(@, trimmedLine)]
                      ELSE loc,
                      em)

\* processChapters: the callbacks it makes, and its locals at the end
processChapters(ps, mem) ==
    ChapterScan(FlatMapSplit(ps), 1, ChapterLocals(mem), <<>>)

\* the loop of processTransactions from line k on
RECURSIVE ScanRows(_, _, _, _)
ScanRows(ls, k, ts, prev) ==
    IF k > Len(ls)
    THEN [threw |-> FALSE, transactions |-> ts, previousBalance |-> prev]
    ELSE LET d == tryParseDate(ls, k)
         IN  IF d.kind = "throw"
             THEN [threw |-> TRUE, transactions |-> ts,
                   previousBalance |-> prev]
             ELSE IF d.kind = "null"
             THEN ScanRows(ls, k + 1, ts, prev)
             ELSE LET seg == SegmentOf(ls, d)
                      parsed == parseTransactionSegment(
                                    JoinSpace(seg.restLines), d.date,
                                    ALL_TYPES, prev)
                  IN  IF seg.threw
                      THEN [threw |-> TRUE, transactions |-> ts,
                            previousBalance |-> prev]
                      ELSE ScanRows(ls, seg.j,
                               PushRecord(ts, parsed.transaction),
                               NextPreviousBalance(prev, parsed.transaction))

\* processTransactions: the list it returns, or the Error of toJSDate
processTransactions(ls, mem) ==
    ScanRows(ls, StartIndex(ls), <<>>, InitialBalance(mem))

\* const result = {}
EmptyResult(mem) ==
    [threw |-> FALSE, transactions |-> Null,
     previousBalance |-> mem.previousBalance]

\* a callback that hands every chapter to processTransactions
RECURSIVE RunCallbacks_EveryChapter(_, _, _)
RunCallbacks_EveryChapter(em, result, mem) ==
    IF em = <<>> \/ result.threw THEN result
    ELSE LET r == processTransactions(Head(em).lines, mem)
         IN  RunCallbacks_EveryChapter(Tail(em),
                 [threw |-> r.threw,
                  transactions |-> IF r.threw THEN Null
                                   ELSE Some(r.transactions),
                  previousBalance |-> r.previousBalance],
                 mem)

\* a callback that goes on with the balance the ledger before it left
RECURSIVE RunCallbacks_CarriedBalance(_, _, _)
RunCallbacks_CarriedBalance(em, result, mem) ==
    IF em = <<>> \/ result.threw THEN result
    ELSE IF Head(em).chapterName = CHAPTER_TRANSACTIONS_OVERVIEW
    THEN LET ls == Head(em).lines
             r == ScanRows(ls, StartIndex(ls), <<>>, result.previousBalance)
         IN  RunCallbacks_CarriedBalance(Tail(em),
                 [threw |-> r.threw,
                  transactions |-> IF r.threw THEN Null
                                   ELSE Some(r.transactions),
                  previousBalance |-> r.previousBalance],
                 mem)
    ELSE RunCallbacks_CarriedBalance(Tail(em), result, mem)

\* the callback of parse, for the chapters in the order they are handed
\* over: result.transactions = this.processTransactions(lines); an Error
\* ends the call
RECURSIVE RunCallbacks(_, _, _)
RunCallbacks(em, result, mem) ==
    IF em = <<>> \/ result.threw THEN result
    ELSE IF Head(em).chapterName = CHAPTER_TRANSACTIONS_OVERVIEW
    THEN LET r == processTransactions(Head(em).lines, mem)
         IN  RunCallbacks(Tail(em),
                 [threw |-> r.threw,
                  transactions |-> IF r.threw THEN Null
                                   ELSE Some(r.transactions),
                  previousBalance |-> r.previousBalance],
                 mem)
    ELSE RunCallbacks(Tail(em), result, mem)

\* parse(pages): what it returns (or that it threw), and what it leaves
parse(input, mem) ==
    LET pageArray == removeHeaders(PageArrayOf(input))
        pcs == processChapters(pageArray, mem)
        result == RunCallbacks(pcs.emitted, EmptyResult(mem), mem)
    IN  [returned |-> [threw |-> result.threw,
                       transactions |-> result.transactions],
         pageArray |-> pageArray,
         emitted |-> pcs.emitted,
         locals |-> pcs.locals,
         previousBalance |-> result.previousBalance]

\* the blocks of lines a statement is written from: the start of a ledger
\* with its first row, a row dated in the two-line layout, a line of the
\* page footer and the heading of another chapter, and a date whose month
\* the table lacks
LedgerStart ==
    << CHAPTER_TRANSACTIONS_OVERVIEW, HEADER_TRANSACTIONS,
       <<"1">>, <<"Jan.">>, <<"2021">>,
       <<"Überweisung", "Test", "transaction", "100,00 €", "100,00 €">> >>
TwoLineRow ==
    << <<"2", "Feb">>, <<"2021", "Handel", "Sale">>,
       <<"50,00 €", "150,00 €">> >>
FooterAndHeading ==
    << <<"Trade", "Republic", "Bank", "GmbH">>, CHAPTER_CASH_OVERVIEW >>
UnknownMonthDate == << <<"3">>, <<"Foo">>, <<"2021">> >>
\* the heading of the ledger of the money market fund
FundLedgerHeading == << CHAPTER_TRANSACTION_OVERVIEW >>

StatementBlocks ==
    {LedgerStart, TwoLineRow, FooterAndHeading, UnknownMonthDate,
     FundLedgerHeading}

MaxStatementBlocks == 3
MaxParseCalls == 2

Statements ==
    {Flatten(bs) :
        bs \in UNION {[1..n -> StatementBlocks] : n \in 1..MaxStatementBlocks}}

\* the statement on two pages, cut after its line c
CutPages(ls, c) ==
    <<PageText(SubSeq(ls, 1, c)), PageText(SubSeq(ls, c + 1, Len(ls)))>>

\* another statement: a ledger of one row, with its table header
OtherStatement ==
    << CHAPTER_TRANSACTIONS_OVERVIEW, HEADER_TRANSACTIONS,
       <<"2">>, <<"Mai">>, <<"2021">>,
       <<"Prämie", "50,00 €", "50,00 €">> >>

\* the statement on one page
OnePage == ArrayInput(<<PageText(lines)>>)

\* what parse is called with: the statement as a string, on one page, or
\* on its two pages
ParseInputs == {StringInput(PageText(lines)), OnePage, ArrayInput(pages)}

\* what one reader is called with, time after time: statements that end in
\* different chapters, with and without a table header and a balance, each
\* as a string and as one page
ReuseInputs ==
    UNION { {StringInput(PageText(ls)), ArrayInput(<<PageText(ls)>>)} :
            ls \in StatementBlocks
                     \cup {OtherStatement, LedgerStart \o TwoLineRow} }

\* a reader is constructed
ReaderInit ==
    /\ pc = "parse"
    /\ calls = 0
    /\ hist = <<>>
    /\ cleaned = <<>> /\ allLines = <<>> /\ emitted = <<>>
    /\ transactions = <<>>
    /\ currentChapter = FreshMemory.currentChapter
    /\ currentContent = FreshMemory.currentContent
    /\ headerSeenInChapter = FreshMemory.headerSeenInChapter
    /\ previousBalance = FreshMemory.previousBalance
    /\ i = 1 /\ cur = 1 /\ dateInfo = NoDate /\ log = <<>>

\* a statement lies ready, and with it its two pages, cut after any of its
\* lines
PaInit ==
    /\ ReaderInit
    /\ lines \in Statements
    /\ \E c \in 0..Len(lines) : pages = CutPages(lines, c)

\* reader.parse(input)
ParseCall(input) ==
    /\ pc = "parse"
    /\ \E out \in {parse(input, Memory)} :
        /\ hist' = Append(hist, [input |-> input, result |-> out.returned])
        /\ cleaned' = out.pageArray
        /\ emitted' = out.emitted
        /\ transactions' = IF out.returned.transactions = Null THEN <<>>
                           ELSE out.returned.transactions[1]
        /\ currentChapter' = out.locals.currentChapter
        /\ currentContent' = out.locals.currentContent
        /\ headerSeenInChapter' = out.locals.headerSeenInChapter
        /\ previousBalance' = out.previousBalance
    /\ calls' = calls + 1
    /\ UNCHANGED <<pc, lines, pages, allLines, i, cur, dateInfo, log>>

\* the new reader parses the statement, in one of its forms
PaCall ==
    /\ calls = 0
    /\ \E input \in ParseInputs : ParseCall(input)

InitParse == PaInit

NextParse == PaCall

SpecParse == InitParse /\ [][NextParse]_vars

\* the reader is called again, with any of the inputs
PaCallAgain ==
    /\ calls < MaxParseCalls
    /\ \E input \in ReuseInputs : ParseCall(input)

InitReuse == ReaderInit /\ lines = <<>> /\ pages = <<>>

NextReuse == PaCallAgain

SpecReuse == InitReuse /\ [][NextReuse]_vars

\* a statement lies ready on one page
PlInit ==
    /\ ReaderInit
    /\ lines \in Statements
    /\ pages = <<PageText(lines)>>

\* the new reader parses the page array
PlCall ==
    /\ calls = 0
    /\ ParseCall(ArrayInput(pages))

InitLedgers == PlInit

NextLedgers == PlCall

SpecLedgers == InitLedgers /\ [][NextLedgers]_vars

\* the steps of processChapters and of processTransactions end with what
\* the loops above compute
StepsAgreeWithLoops ==
    /\ pc = "done" => emitted = processChapters(pages, FreshMemory).emitted
    /\ pc = "returned"
       => /\ ~processTransactions(lines, FreshMemory).threw
          /\ transactions
               = processTransactions(lines, FreshMemory).transactions
    /\ pc = "thrown" => processTransactions(lines, FreshMemory).threw

\* C18: parse of a string returns what parse of the array holding that one
\* string returns, the list of records or the Error.
C18_StringIsOnePage ==
    \A n \in DOMAIN hist :
        ~hist[n].input.isArray
        => hist[n].result
             = parse(ArrayInput(<<hist[n].input.value>>),
                     FreshMemory).returned

\* the statement was given as a string, and parse returned its two records
C18_Witness ==
    /\ Len(hist) = 1
    /\ hist[1].input = StringInput(PageText(lines))
    /\ ~hist[1].result.threw
    /\ hist[1].result.transactions # Null
    /\ Len(hist[1].result.transactions[1]) = 2

\* C19: parse of the statement cut into two pages after any of its lines
\* returns the records that parse of the statement on one page returns.
C19_PageCutsDoNotMatter ==
    \A n \in DOMAIN hist :
        hist[n].input = ArrayInput(pages)
        => hist[n].result = parse(OnePage, FreshMemory).returned

\* the statement was cut between the lines of a date, inside the ledger,
\* and parse returned its two records
C19_Witness ==
    /\ Len(hist) = 1
    /\ hist[1].input = ArrayInput(pages)
    /\ \E c \in 1..(Len(lines) - 1) :
           /\ pages = CutPages(lines, c)
           /\ IsBareDay(lines[c]) /\ IsTableMonthAt(lines, c + 1)
    /\ hist[1].result.transactions # Null
    /\ Len(hist[1].result.transactions[1]) = 2

\* C20: every call of parse on a reader that was called before returns what
\* a reader that was never called returns for that input, and calls with
\* the same input return the same.
C20_ParseKeepsNoState ==
    \A n \in DOMAIN hist :
        /\ hist[n].result = parse(hist[n].input, FreshMemory).returned
        /\ \A m \in DOMAIN hist :
               hist[m].input = hist[n].input
               => hist[m].result = hist[n].result

\* the first call ended inside a ledger, with its table header seen and a
\* balance carried; the second call was given a row that no chapter
\* heading precedes, and returned no list
C20_Witness ==
    /\ Len(hist) = 2
    /\ hist[1].input = ArrayInput(<<PageText(OtherStatement)>>)
    /\ hist[1].result.transactions # Null
    /\ hist[2].input = ArrayInput(<<PageText(TwoLineRow)>>)
    /\ hist[2].result.transactions = Null
    /\ ~hist[2].result.threw

Max(S) == CHOOSE m \in S : \A x \in S : m >= x

\* the lines of the statement that removeHeaders keeps
KeptLines == FilterLines(lines)

\* the chapters of the statement that are ledgers and have a line to keep
LedgerStarts ==
    {s \in Range(EmittedStarts(KeptLines)) :
        ChapterName(KeptLines, s) = CHAPTER_TRANSACTIONS_OVERVIEW}

\* the lines of the chapter that starts at s, as the scan sees them: not
\* blank, and of the table headers the first one only
LedgerContent(s) ==
    LET src == SourceLines(KeptLines, s)
        hs == {k \in DOMAIN src : src[k] \in headers}
        keep == {k \in DOMAIN src :
                    /\ src[k] # EmptyString
                    /\ src[k] \in headers => k = Min(hs)}
        idx == SortedSeq(keep)
    IN  [n \in DOMAIN idx |-> src[idx[n]]]

\* the dates that start in the lines ls
AnchorsIn(ls) == {k \in DOMAIN ls : tryParseDate(ls, k).kind = "date"}

\* C21: parse makes records of the lines of a chapter UMSATZÜBERSICHT only:
\* without such a chapter it returns no list (and raises nothing), however
\* many dated rows stand under other headings or before the first heading;
\* with one, the list holds one record for each date of the last such
\* chapter and none for a date elsewhere.
C21_RecordsFromLedgerOnly ==
    \A n \in DOMAIN hist :
        LET r == hist[n].result
        IN  /\ LedgerStarts = {}
               => ~r.threw /\ r.transactions = Null
            /\ r.transactions # Null
               => /\ LedgerStarts # {}
                  /\ Len(r.transactions[1])
                       = Cardinality(AnchorsIn(
                             LedgerContent(Max(LedgerStarts))))

\* the ledger holds one row and another row stands in the ledger of the
\* money market fund: one record
C21_Witness ==
    /\ lines = LedgerStart \o FundLedgerHeading \o TwoLineRow
    /\ Len(hist) = 1
    /\ hist[1].result.transactions # Null
    /\ Len(hist[1].result.transactions[1]) = 1

\* the records of the ledger chapter that starts at s, made on their own
RowsOfLedger(s) == processTransactions(LedgerContent(s), FreshMemory)

\* C28: when the statement has two or more chapters UMSATZÜBERSICHT with
\* content, the list parse returns is the list of the last of them alone:
\* the records of the earlier ones are replaced, and the last chapter is read
\* without a previous balance, so that its first row is an inflow exactly
\* when its category is an incoming one.  (parse returns no list when a
\* date of any of these chapters raises.)
C28_LastLedgerChapterWins ==
    \A n \in DOMAIN hist :
        LET r == hist[n].result
        IN  Cardinality(LedgerStarts) >= 2 =>
                /\ r.threw <=> \E s \in LedgerStarts : RowsOfLedger(s).threw
                /\ ~r.threw =>
                       LET ts == RowsOfLedger(Max(LedgerStarts)).transactions
                       IN  /\ r.transactions = Some(ts)
                           /\ (ts # <<>> /\ ts[1].description # Null) =>
                                  (ts[1].received # Null <=>
                                      ts[1].type
                                          \in Range(TRANSACTION_TYPES_IN))

\* a ledger of two rows that ends on 150,00 €, then a second ledger of one
\* row "Überweisung" with the balance 100,00 €: one record, an inflow
C28_Witness ==
    /\ lines = LedgerStart \o TwoLineRow \o LedgerStart
    /\ Cardinality(LedgerStarts) = 2
    /\ Len(RowsOfLedger(Min(LedgerStarts)).transactions) = 2
    /\ Len(hist) = 1
    /\ hist[1].result.transactions # Null
    /\ Len(hist[1].result.transactions[1]) = 1
    /\ hist[1].result.transactions[1][1].received = Some(10000)
    /\ hist[1].result.transactions[1][1].balance = 10000

-----------------------------------------------------------------------------
(* readTransactions on the PDF reader: the records of the ledger are       *)
(* fetched (or taken from the record cache), converted by parseTransaction *)
(* and filtered by validateTransaction.                                    *)

\* the values of TransactionType the reader can produce
BUY == "buy"
SELL == "sell"
DIVIDEND == "dividend"
INTEREST == "interest"
FEE == "fee"
TAX == "tax"
PAYMENT == "payment"
DEPOSIT == "deposit"
GIFT == "gift"

GERMAN_TYPE_MAP ==
    ("Erträge" :> DIVIDEND) @@ ("Überweisung" :> DEPOSIT) @@
    ("Zinszahlung" :> INTEREST) @@ ("Prämie" :> DEPOSIT) @@
    ("Steuern" :> TAX) @@ ("Empfehlung" :> DEPOSIT) @@
    ("Kartentransaktion" :> PAYMENT) @@ ("Geschenk" :> GIFT)

\* a number or null taken as a condition: null and 0 are false
Truthy(o) == o # Null /\ o[1] # 0

\* classifyGermanType: the TransactionType, and what was logged
classifyGermanType(germanType, pdfTx) ==
    IF germanType = "" THEN [type |-> FEE, logged |-> <<>>]
    ELSE IF germanType \in DOMAIN GERMAN_TYPE_MAP
    THEN [type |-> GERMAN_TYPE_MAP[germanType], logged |-> <<>>]
    ELSE IF germanType = "Handel"
    THEN [type |-> IF Truthy(pdfTx.received) THEN SELL ELSE BUY,
          logged |-> <<>>]
    ELSE [type |-> FEE,
          logged |-> <<[kind |-> "unmapped_type", type |-> germanType]>>]

\* an amount that is the sum of the two columns
AmountOfRecord_Unsigned(record) ==
    OrZero(record.received) + OrZero(record.spent)

\* record.received ? record.received : record.spent ? -record.spent : 0
AmountOfRecord(record) ==
    IF Truthy(record.received) THEN record.received[1]
    ELSE IF Truthy(record.spent) THEN 0 - record.spent[1]
    ELSE 0

\* parseTransaction: the Transaction made of a ledger record.  No isin,
\* shares, price or fee is set.
parseTransaction(record) ==
    LET c == classifyGermanType(record.type, record)
    IN  [logged |-> c.logged,
         tx |-> [type |-> c.type,
                 date |-> record.date,
                 name |-> IF record.description = Null
                             \/ record.description[1] = EmptyString
                          THEN Null ELSE record.description,
                 amount |-> AmountOfRecord(record),
                 currency |-> "EUR",
                 source |-> "trade-republic-pdf",
                 isin |-> Null, shares |-> Null, price |-> Null,
                 fee |-> Null]]

IsinRequired == {BUY, SELL, DIVIDEND}

\* a validation that asks no ISIN of any type
validateTransaction_NoIsin(tx) ==
    IF tx.type = ""
    THEN [ok |-> FALSE, logged |-> <<[kind |-> "missing_type", tx |-> tx]>>]
    ELSE IF Truthy(tx.shares) /\ tx.shares[1] < 0
    THEN [ok |-> FALSE, logged |-> <<[kind |-> "shares", tx |-> tx]>>]
    ELSE IF Truthy(tx.price) /\ tx.price[1] < 0
    THEN [ok |-> FALSE, logged |-> <<[kind |-> "price", tx |-> tx]>>]
    ELSE IF Truthy(tx.fee) /\ tx.fee[1] < 0
    THEN [ok |-> FALSE, logged |-> <<[kind |-> "fee", tx |-> tx]>>]
    ELSE [ok |-> TRUE, logged |-> <<>>]

\* BaseReader.validateTransaction: whether the transaction is kept, and what
\* was logged.  (!tx.isin || !isValidIsin(tx.isin)): isValidIsin is applied
\* to an ISIN only, and the transactions of this reader carry none.
validateTransaction(tx) ==
    IF tx.type = ""
    THEN [ok |-> FALSE, logged |-> <<[kind |-> "missing_type", tx |-> tx]>>]
    ELSE IF tx.type \in IsinRequired /\ tx.isin = Null
    THEN [ok |-> FALSE, logged |-> <<[kind |-> "invalid_isin", tx |-> tx]>>]
    ELSE IF Truthy(tx.shares) /\ tx.shares[1] < 0
    THEN [ok |-> FALSE, logged |-> <<[kind |-> "shares", tx |-> tx]>>]
    ELSE IF Truthy(tx.price) /\ tx.price[1] < 0
    THEN [ok |-> FALSE, logged |-> <<[kind |-> "price", tx |-> tx]>>]
    ELSE IF Truthy(tx.fee) /\ tx.fee[1] < 0
    THEN [ok |-> FALSE, logged |-> <<[kind |-> "fee", tx |-> tx]>>]
    ELSE [ok |-> TRUE, logged |-> <<>>]

\* fetchTransactionRecords: parsed.transactions || [], or the Error of parse
\* parsed.transactions || []
TransactionsOrNone(parsed) ==
    [threw |-> parsed.threw,
     records |-> IF parsed.transactions = Null THEN <<>>
                 ELSE parsed.transactions[1]]

\* fetchTransactionRecords: parsed.transactions || [], or the Error of parse
fetchTransactionRecords(options, mem) ==
    TransactionsOrNone(parse(options.pages, mem).returned)

\* a record as the record cache gives it back: a line of JSON, in which the
\* Date is its ISO string
JsonRecord(r) == [r EXCEPT !.date = [iso |-> r.date]]

JsonRecords(rs) == [k \in DOMAIN rs |-> JsonRecord(rs[k])]

\* records.map(parseTransaction).filter(validateTransaction), and the log
RECURSIVE MapAndFilter(_)
MapAndFilter(records) ==
    IF records = <<>> THEN [transactions |-> <<>>, logged |-> <<>>]
    ELSE LET p == parseTransaction(Head(records))
             v == validateTransaction(p.tx)
             rest == MapAndFilter(Tail(records))
         IN  [transactions |->
                  (IF v.ok THEN <<p.tx>> ELSE <<>>) \o rest.transactions,
              logged |-> p.logged \o v.logged \o rest.logged]

\* readTransactions(options), with the cache file holding the records
\* cached, and fetched being what this.fetchTransactionRecords(options)
\* gives when it is called: the records used, the transactions returned (or
\* the Error), the records the cache file holds afterwards, and the log
readTransactions(options, cached, fetched) ==
    LET fromCache == options.cacheRecords /\ Len(cached) > 0
        records == IF fromCache THEN cached ELSE fetched.records
        out == MapAndFilter(records)
    IN  IF ~fromCache /\ fetched.threw
        THEN [threw |-> TRUE, records |-> <<>>, transactions |-> <<>>,
              stored |-> cached, logged |-> <<>>]
        ELSE [threw |-> FALSE, records |-> records,
              transactions |-> out.transactions,
              stored |-> IF options.cacheRecords /\ ~fromCache
                         THEN cached \o JsonRecords(records) ELSE cached,
              logged |-> out.logged]

\* the rows a ledger is written from, after the row of LedgerStart that
\* leaves 100,00 €: trades with a rising and with a falling balance, a
\* distribution, a card payment, a category that is not in the vocabulary,
\* a row with one monetary substring, a row of 0,00 €, and a date whose
\* month the table lacks
LedgerRows ==
    { << <<"21">>, <<"Apr.">>, <<"2021">>,
         <<"Handel", "236,00 €", "264,00 €">> >>,
      << <<"2">>, <<"Mai">>, <<"2021">>,
         <<"Handel", "Kauf", "50,00 €", "50,00 €">> >>,
      << <<"3">>, <<"Juni">>, <<"2021">>,
         <<"Erträge", "Fund", "10,00 €", "500,00 €">> >>,
      << <<"2", "Feb">>, <<"2021", "Kartentransaktion", "Shop">>,
         <<"50,00 €", "50,00 €">> >>,
      << <<"31">>, <<"Dez.">>, <<"2021">>,
         <<"Gebühr", "x", "10,00 €", "0,00 €">> >>,
      << <<"3">>, <<"Juni">>, <<"2021">>, <<"Steuern", "note", "10,00 €">> >>,
      << <<"7">>, <<"Juli">>, <<"2021">>,
         <<"Zinszahlung", "0,00 €", "100,00 €">> >>,
      UnknownMonthDate }

MaxLedgerRows == 2

\* the statements that are read: a ledger of up to 1 + MaxLedgerRows rows
ReadStatements ==
    {LedgerStart \o Flatten(rs) :
        rs \in UNION {[1..n -> LedgerRows] : n \in 0..MaxLedgerRows}}

\* what the cache file may hold when readTransactions is called: nothing,
\* or the records of a ledger of two rows, one of them a trade
CachedRecords ==
    {<<>>,
     JsonRecords(processTransactions(LedgerStart \o TwoLineRow,
                                     FreshMemory).transactions)}

\* a reader is constructed and a statement lies ready on one page
RdInit ==
    /\ ReaderInit
    /\ lines \in ReadStatements
    /\ pages = <<PageText(lines)>>

\* reader.readTransactions({ pages, cacheRecords })
RdCall ==
    /\ calls = 0
    /\ \E cacheRecords \in BOOLEAN, cached \in CachedRecords :
       \E options \in {[pages |-> ArrayInput(pages),
                        cacheRecords |-> cacheRecords]} :
       \E fetched \in {fetchTransactionRecords(options, Memory)} :
       \E out \in {readTransactions(options, cached, fetched)} :
        /\ hist' = Append(hist,
              [cacheRecords |-> cacheRecords, cached |-> cached,
               records |-> out.records, stored |-> out.stored,
               result |-> [threw |-> out.threw,
                           transactions |-> out.transactions]])
        /\ transactions' = out.records
        /\ log' = log \o out.logged
    /\ calls' = calls + 1
    /\ UNCHANGED <<pc, lines, i, dateInfo, previousBalance, pages, cleaned,
                   pcVars>>

InitRead == RdInit

NextRead == RdCall

SpecRead == InitRead /\ [][NextRead]_vars

\* the ledger records that parseTransaction turns into a trade or a
\* distribution
IsTradeOrDistribution(r) == r.type \in {"Handel", "Erträge"}

\* C30: readTransactions returns no transaction of type BUY, SELL or
\* DIVIDEND: the records of the categories "Handel" and "Erträge" become
\* transactions without an ISIN and are rejected, and the records of every
\* other category are returned, in their order, with the amount +received
\* for an inflow, -spent for an outflow and 0 when neither is set.
C30_NoTradesReturned ==
    \A n \in DOMAIN hist :
        LET r == hist[n].result
            others == SelectSeq(hist[n].records,
                                LAMBDA rec : ~IsTradeOrDistribution(rec))
        IN  ~r.threw =>
                /\ \A k \in DOMAIN r.transactions :
                       /\ r.transactions[k].type \notin {BUY, SELL, DIVIDEND}
                       /\ r.transactions[k].isin = Null
                /\ \A k \in DOMAIN hist[n].records :
                       IsTradeOrDistribution(hist[n].records[k]) =>
                           \E e \in Range(log) :
                               /\ e.kind = "invalid_isin"
                               /\ e.tx.date = hist[n].records[k].date
                               /\ e.tx.type \in {BUY, SELL, DIVIDEND}
                /\ Len(r.transactions) = Len(others)
                /\ \A k \in DOMAIN others :
                       /\ r.transactions[k].date = others[k].date
                       /\ r.transactions[k].amount =
                              IF others[k].received # Null
                              THEN others[k].received[1]
                              ELSE IF others[k].spent # Null
                              THEN 0 - others[k].spent[1]
                              ELSE 0

\* a ledger of a deposit, a sale and a row without an amount was read: the
\* deposit and the row without an amount are returned, the sale is not
C30_Witness ==
    /\ Len(hist) = 1
    /\ ~hist[1].result.threw
    /\ Len(hist[1].records) = 3
    /\ hist[1].records[2].type = "Handel"
    /\ hist[1].records[2].received # Null
    /\ Len(hist[1].result.transactions) = 2
    /\ hist[1].result.transactions[1].type = DEPOSIT
    /\ hist[1].result.transactions[1].amount = 10000
    /\ hist[1].result.transactions[2].type = TAX
    /\ hist[1].result.transactions[2].amount = 0

=============================================================================
